---------------------------- MODULE Spec2Model ----------------------------
(***************************************************************************)
(* A model of the reading-challenge bot: the SQLite store (src/db.py), the *)
(* scheduler jobs (src/jobs.py) and the poll-answer handler                *)
(* (src/handlers/poll.py).                                                 *)
(*                                                                         *)
(* Tables are sets of rows; a row is a record that carries its             *)
(* AUTOINCREMENT id, so that a duplicate row is a second element of the    *)
(* set and a UNIQUE constraint is something the operators enforce, not     *)
(* something the representation gives for free.  Timestamp columns         *)
(* (posted_at, voted_at, updated_at, joined_at) are left out: nothing in   *)
(* the program reads them back.                                            *)
(*                                                                         *)
(* A coroutine is a record with a program counter; one action is one       *)
(* stretch of code between two awaits that yield to the event loop.        *)
(***************************************************************************)
EXTENDS Integers, Sequences, FiniteSets, TLC

\* ------------------------------------------------------------------ bounds
MaxGroups == 2
MaxDay == 1
MaxPollFirings == 2
MaxUsers == 1
MaxVoters == 2
MaxWeeklyFirings == 2
MaxRegTasks == 2
MaxAdmTasks == 2
MaxArgLen == 5
MaxBoardUsers == 3
BoardDays == 3
SlotsPerDay == 4

\* SQL NULL / Python None.  Row ids start at 1 and option indexes at 0.
NULL == -1

\* utils.py: a week is seven days, Monday first.  Days are numbered from the
\* Monday of the week the bot is first started in.
WeekLength == 7

\* The times of day the model tells apart, in order: 09:00 (the weekly cron of
\* jobs.py), the poll times an admin can set, and 23:59 (the snapshot cron).
\* settings.poll_time defaults to '20:00', the first of the poll times.
WeeklySlot == 0
DefaultPollTime == 1
SnapshotSlot == SlotsPerDay - 1
PollTimes == DefaultPollTime..(SnapshotSlot - 1)

Groups == 1..MaxGroups
Days == 0..MaxDay
PollFirings == 1..MaxPollFirings
WeeklyFirings == 1..MaxWeeklyFirings
RegTasks == 1..MaxRegTasks
AdmTasks == 1..MaxAdmTasks
\* Accounts that enrol or are enrolled, and accounts that answer polls (any
\* member of a chat can answer, enrolled or not).
Users == 1..MaxUsers
Voters == 1..MaxVoters

\* Telegram accounts: user u has username TgUsername[u] and full name
\* TgFullName[u].  Admins type usernames in lower case (/add @alice).
TgUsername == <<"Alice", "Bob", "Carol", "Dave">>
TgFullName == <<"Zoe", "adam", "Mia", "lea">>
Username(u) == TgUsername[u]
FullName(u) == TgFullName[u]

\* SQL lower() / Python str.lower() on the names above.
Lower(s) ==
    CASE s = "Alice" -> "alice" [] s = "Bob" -> "bob"
      [] s = "Carol" -> "carol" [] s = "Dave" -> "dave"
      [] s = "Zoe" -> "zoe" [] s = "Mia" -> "mia"
      [] OTHER -> s

Aliases == {Lower(Username(u)) : u \in Users}

\* The username an update carries: a Telegram account may have none ("") and
\* may take one later, also one that another account carried before.
EventNames == {""} \cup {Username(u) : u \in Users}

\* The handlers of a day are followed in one chat: every query of theirs is
\* keyed by group_id or by a poll's own id.
DayGroups == {1}

\* poll_answer.option_ids of a single-choice two-option poll.
OptionLists == {<<>>, <<0>>, <<1>>}

VARIABLES
    today,          \* get_almaty_today(): the current calendar day
    polls,          \* table polls
    pollJob,        \* the executions of post_daily_poll, by delivery number
    tgPolls,        \* transport side: the polls Telegram has published
    votes,          \* table votes
    participants,   \* table participants
    daily_results,  \* table daily_results
    lastAnswer,     \* history: the last option_ids recorded per (poll, user)
    snapRuns,       \* history: per group, the snapshots run for today with
                    \* no store change since (counted up to 2)
    weekly_results, \* table weekly_results
    weeklyJob,      \* the executions of post_weekly_summary, by call number
    summaries,      \* transport side: the summary messages Telegram has sent
    regJob,         \* the update handlers in flight that touch participants
    regCall,        \* history: the last call of a participants write method
    groups,         \* table groups
    settings,       \* table settings
    jobs,           \* the scheduler's job store
    now,            \* the time of day, in slots
    fired,          \* history: the job executions the scheduler started
    supplied,       \* history: per group, the poll_time of the last
                    \* schedule_group_jobs call, NULL when there was none
                    \* or remove_group_jobs was called since
    boot,           \* history: flips each time main restores the jobs
    delivery,       \* history: the last run of a job the scheduler came to
    admJob,         \* the admin command handlers in flight
    timeArg,        \* history: the argument of the last /set_time
    answerEvent     \* history: the last poll_answer update handled

dayVars == <<votes, participants, daily_results, lastAnswer, snapRuns>>
weekVars == <<weekly_results, weeklyJob, summaries>>
regVars == <<regJob, regCall>>
schedVars == <<groups, settings, jobs, now, fired, supplied, boot, delivery>>
admVars == <<admJob, timeArg>>
evVars == <<answerEvent>>
ctlVars == <<regVars, schedVars, admVars, evVars>>
vars == <<today, polls, pollJob, tgPolls, dayVars, weekVars, ctlVars>>

\* ------------------------------------------------------------------ store
\* The next AUTOINCREMENT id of a table: rows are never deleted, ids grow.
RECURSIVE MaxId(_)
MaxId(rows) ==
    IF rows = {} THEN 0
    ELSE LET r == CHOOSE x \in rows : TRUE
             m == MaxId(rows \ {r})
         IN IF r.id > m THEN r.id ELSE m

NextId(rows) == MaxId(rows) + 1

\* UNIQUE(group_id, poll_date) of table polls.
PollSlotTaken(rows, g, d) == \E r \in rows : r.group_id = g /\ r.poll_date = d

\* INSERT INTO polls (group_id, poll_date, posted_at): handles start NULL.
NewPollRow(rows, g, d) ==
    [id |-> NextId(rows), group_id |-> g, poll_date |-> d,
     tg_poll_id |-> NULL, message_id |-> NULL]

\* The insert without the UNIQUE constraint: a second row for the day.
try_create_poll_slot_no_unique(rows, g, d) ==
    [polls |-> rows \cup {NewPollRow(rows, g, d)}, ret |-> NextId(rows)]

\* The conflict swallowed as INSERT OR IGNORE would: the caller gets an id.
try_create_poll_slot_or_ignore(rows, g, d) ==
    IF PollSlotTaken(rows, g, d)
    THEN [polls |-> rows,
          ret |-> (CHOOSE r \in rows : r.group_id = g /\ r.poll_date = d).id]
    ELSE [polls |-> rows \cup {NewPollRow(rows, g, d)}, ret |-> NextId(rows)]

\* Database.try_create_poll_slot: the new row's id, or None on IntegrityError.
try_create_poll_slot(rows, g, d) ==
    IF PollSlotTaken(rows, g, d)
    THEN [polls |-> rows, ret |-> NULL]
    ELSE [polls |-> rows \cup {NewPollRow(rows, g, d)}, ret |-> NextId(rows)]

\* Database.update_poll_telegram_ids: UPDATE ... WHERE group_id=? AND poll_date=?
update_poll_telegram_ids(rows, g, d, tg_poll_id, message_id) ==
    {IF r.group_id = g /\ r.poll_date = d
     THEN [r EXCEPT !.tg_poll_id = tg_poll_id, !.message_id = message_id]
     ELSE r : r \in rows}

\* The except branch, had it released the slot so that a later firing retries.
release_slot_on_failure(rows, g, d) ==
    {r \in rows : ~(r.group_id = g /\ r.poll_date = d)}

\* The except branch of post_daily_poll: the error is logged, the slot stays.
leave_slot_reserved(rows, g, d) == rows

\* fetchone(): the first row of a result, or None.  SQLite scans these
\* tables in rowid order, so the first row is the one with the least id.
FetchOne(rows) ==
    IF rows = {} THEN {}
    ELSE {CHOOSE r \in rows : \A x \in rows : r.id <= x.id}

\* get_poll_by_tg_id that falls back on the oldest poll of the table.
get_poll_by_tg_id_or_any(rows, tg_poll_id) ==
    IF \E r \in rows : r.tg_poll_id = tg_poll_id
    THEN FetchOne({r \in rows : r.tg_poll_id = tg_poll_id})
    ELSE FetchOne(rows)

\* Database.get_poll_by_tg_id / get_poll_by_date (a NULL column matches no "=").
get_poll_by_tg_id(rows, tg_poll_id) ==
    FetchOne({r \in rows : r.tg_poll_id # NULL /\ r.tg_poll_id = tg_poll_id})

get_poll_by_date(rows, g, d) ==
    FetchOne({r \in rows : r.group_id = g /\ r.poll_date = d})

\* ------------------------------------------------------------------ votes
VoteRows(rows, poll_id, u) == {r \in rows : r.poll_id = poll_id /\ r.user_id = u}

\* The row an INSERT INTO votes adds.  No query reads votes.id, so a row
\* carries, in place of the rowid, its ordinal among the rows of its
\* (poll_id, user_id): a duplicate is a row with ordinal 2.
NewVoteRow(rows, poll_id, u, option_idx) ==
    [id |-> Cardinality(VoteRows(rows, poll_id, u)) + 1, poll_id |-> poll_id,
     user_id |-> u, option_idx |-> option_idx]

\* INSERT OR IGNORE instead of the upsert: the first answer would stick.
upsert_vote_keep_first(rows, poll_id, u, option_idx) ==
    IF VoteRows(rows, poll_id, u) # {} THEN rows
    ELSE rows \cup {NewVoteRow(rows, poll_id, u, option_idx)}

\* A plain INSERT on a table without UNIQUE(poll_id, user_id).
upsert_vote_append(rows, poll_id, u, option_idx) ==
    rows \cup {NewVoteRow(rows, poll_id, u, option_idx)}

\* Database.upsert_vote: INSERT ... ON CONFLICT(poll_id, user_id) DO UPDATE.
upsert_vote(rows, poll_id, u, option_idx) ==
    IF VoteRows(rows, poll_id, u) # {}
    THEN {IF r.poll_id = poll_id /\ r.user_id = u
          THEN [r EXCEPT !.option_idx = option_idx] ELSE r : r \in rows}
    ELSE rows \cup {NewVoteRow(rows, poll_id, u, option_idx)}

\* Database.get_vote
get_vote(rows, poll_id, u) == FetchOne(VoteRows(rows, poll_id, u))

\* on_poll_answer with the retraction read as the first option.
decode_option_retract_as_yes(option_ids) ==
    IF option_ids # <<>> THEN option_ids[1] ELSE 0

\* on_poll_answer, lines 38-42: an empty option list is a retraction.
decode_option(option_ids) ==
    IF option_ids # <<>> THEN option_ids[1] ELSE NULL

\* ----------------------------------------------------------- participants
\* WHERE group_id = ? AND user_id = ?
RowsByUserId(rows, g, u) == {r \in rows : r.group_id = g /\ r.user_id = u}

\* WHERE group_id = ? AND lower(username) = lower(?)   (NULL matches nothing)
RowsByUsername(rows, g, name) ==
    {r \in rows : r.group_id = g /\ r.username # "" /\ Lower(r.username) = Lower(name)}

get_participant_by_user_id(rows, g, u) == FetchOne(RowsByUserId(rows, g, u))
get_participant_by_username(rows, g, name) == FetchOne(RowsByUsername(rows, g, name))

UpdateRow(rows, id, new) == {IF r.id = id THEN new ELSE r : r \in rows}

\* A hard removal: DELETE FROM participants in place of the UPDATE.
Deactivate_delete(rows, found) ==
    IF found = {} \/ (\A r \in found : r.active = 0) THEN rows
    ELSE rows \ found

\* upsert_participant looking only for an active row of the user.
upsert_participant_active_only(rows, g, u, username, display_name) ==
    LET existing == {r \in get_participant_by_user_id(rows, g, u) : r.active = 1}
    IN IF existing # {}
       THEN LET e == CHOOSE r \in existing : TRUE
            IN UpdateRow(rows, e.id, [e EXCEPT !.username = username,
                    !.display_name = display_name, !.active = 1, !.pending = 0])
       ELSE rows \cup {[id |-> NextId(rows), group_id |-> g, user_id |-> u,
                        username |-> username, display_name |-> display_name,
                        active |-> 1, pending |-> 0]}

\* upsert_participant without its lookup by user_id.
upsert_participant_no_lookup(rows, g, u, username, display_name) ==
    rows \cup {[id |-> NextId(rows), group_id |-> g, user_id |-> u,
               username |-> username, display_name |-> display_name,
               active |-> 1, pending |-> 0]}

\* Database.upsert_participant; "" stands for a user without a username.
upsert_participant(rows, g, u, username, display_name) ==
    LET existing == get_participant_by_user_id(rows, g, u)
        pending == IF username = "" THEN {}
                   ELSE {r \in get_participant_by_username(rows, g, username) :
                            r.user_id = NULL}
    IN IF existing # {}
       THEN LET e == CHOOSE r \in existing : TRUE
            IN UpdateRow(rows, e.id, [e EXCEPT !.username = username,
                    !.display_name = display_name, !.active = 1, !.pending = 0])
       ELSE IF pending # {}
       THEN LET e == CHOOSE r \in pending : TRUE
            IN UpdateRow(rows, e.id, [e EXCEPT !.user_id = u,
                    !.display_name = display_name, !.active = 1, !.pending = 0])
       ELSE rows \cup {[id |-> NextId(rows), group_id |-> g, user_id |-> u,
                        username |-> username, display_name |-> display_name,
                        active |-> 1, pending |-> 0]}

\* The id upsert_participant returns: the row it updated, or lastrowid of
\* its INSERT.
upsert_participant_id(rows, g, u, username) ==
    LET existing == get_participant_by_user_id(rows, g, u)
        pending == IF username = "" THEN {}
                   ELSE {r \in get_participant_by_username(rows, g, username) :
                            r.user_id = NULL}
    IN IF existing # {} THEN (CHOOSE r \in existing : TRUE).id
       ELSE IF pending # {} THEN (CHOOSE r \in pending : TRUE).id
       ELSE NextId(rows)

\* add_pending_participant marking the row it finds as pending again.
add_pending_participant_mark_pending(rows, g, username) ==
    LET existing == get_participant_by_username(rows, g, username)
    IN IF existing # {}
       THEN LET e == CHOOSE r \in existing : TRUE
            IN UpdateRow(rows, e.id, [e EXCEPT !.active = 1, !.pending = 1])
       ELSE rows \cup {[id |-> NextId(rows), group_id |-> g, user_id |-> NULL,
                        username |-> username, display_name |-> username,
                        active |-> 1, pending |-> 1]}

\* Database.add_pending_participant
add_pending_participant(rows, g, username) ==
    LET existing == get_participant_by_username(rows, g, username)
    IN IF existing # {}
       THEN LET e == CHOOSE r \in existing : TRUE
            IN UpdateRow(rows, e.id, [e EXCEPT !.active = 1])
       ELSE rows \cup {[id |-> NextId(rows), group_id |-> g, user_id |-> NULL,
                        username |-> username, display_name |-> username,
                        active |-> 1, pending |-> 1]}

\* The id add_pending_participant returns.
add_pending_participant_id(rows, g, username) ==
    LET existing == get_participant_by_username(rows, g, username)
    IN IF existing # {} THEN (CHOOSE r \in existing : TRUE).id ELSE NextId(rows)

\* The row resolve_pending_by_username selects.
PendingByUsername(rows, g, username) ==
    FetchOne({r \in RowsByUsername(rows, g, username) :
                r.user_id = NULL /\ r.pending = 1})

\* resolve_pending_by_username leaving the pending flag as it was.
resolve_pending_by_username_keep_flag(rows, g, username, u, display_name) ==
    LET row == PendingByUsername(rows, g, username)
    IN IF row = {} THEN [participants |-> rows, ret |-> "false"]
       ELSE IF RowsByUserId(rows, g, u) # {}
       THEN [participants |-> rows, ret |-> "IntegrityError"]
       ELSE LET e == CHOOSE r \in row : TRUE
            IN [participants |-> UpdateRow(rows, e.id, [e EXCEPT !.user_id = u,
                        !.display_name = display_name]),
                ret |-> "true"]

\* Database.resolve_pending_by_username.  The UPDATE violates the unique index
\* ux_participants_group_user when the user already owns a row of the group:
\* sqlite3.IntegrityError is raised and no row changes.
resolve_pending_by_username(rows, g, username, u, display_name) ==
    LET row == PendingByUsername(rows, g, username)
    IN IF row = {} THEN [participants |-> rows, ret |-> "false"]
       ELSE IF RowsByUserId(rows, g, u) # {}
       THEN [participants |-> rows, ret |-> "IntegrityError"]
       ELSE LET e == CHOOSE r \in row : TRUE
            IN [participants |-> UpdateRow(rows, e.id, [e EXCEPT !.user_id = u,
                        !.display_name = display_name, !.pending = 0]),
                ret |-> "true"]

\* Database.deactivate_participant_by_user_id / _by_username, given the row
\* the lookup fetched.
Deactivate(rows, found) ==
    IF found = {} \/ (\A r \in found : r.active = 0) THEN rows
    ELSE LET e == CHOOSE r \in found : TRUE
         IN UpdateRow(rows, e.id, [e EXCEPT !.active = 0])

\* What the deactivate methods return, given the row the lookup fetched.
Deactivated(found) ==
    IF found = {} \/ (\A r \in found : r.active = 0) THEN "false" ELSE "true"

deactivate_participant_by_user_id(rows, g, u) ==
    Deactivate(rows, get_participant_by_user_id(rows, g, u))

deactivate_participant_by_username(rows, g, name) ==
    Deactivate(rows, get_participant_by_username(rows, g, name))

\* Database.get_active_participants
get_active_participants(rows, g) == {r \in rows : r.group_id = g /\ r.active = 1}

\* ORDER BY display_name COLLATE NOCASE: the rank of a name among the names
\* of the model, compared without case.
NoCaseKey(s) ==
    LET l == Lower(s)
    IN CASE l = "adam" -> 1 [] l = "alice" -> 2 [] l = "bob" -> 3
         [] l = "carol" -> 4 [] l = "dave" -> 5 [] l = "lea" -> 6
         [] l = "mia" -> 7 [] l = "zoe" -> 8 [] OTHER -> 9

\* The rows of get_active_participants in the order the query returns them
\* (rows of equal name in rowid order).
RECURSIVE ByDisplayName(_)
ByDisplayName(rows) ==
    IF rows = {} THEN <<>>
    ELSE LET first == CHOOSE r \in rows : \A x \in rows :
                        \/ NoCaseKey(r.display_name) < NoCaseKey(x.display_name)
                        \/ /\ NoCaseKey(r.display_name) = NoCaseKey(x.display_name)
                           /\ r.id <= x.id
         IN <<first>> \o ByDisplayName(rows \ {first})

\* ---------------------------------------------------------- daily results
DailyRows(rows, g, pid, d) ==
    {r \in rows : r.group_id = g /\ r.participant_id = pid /\ r.result_date = d}

\* The row an INSERT INTO daily_results adds; as for votes, the ordinal among
\* the rows of its (group_id, participant_id, result_date) stands for the
\* rowid, which no query reads.
NewDailyRow(rows, g, pid, d, status) ==
    [id |-> Cardinality(DailyRows(rows, g, pid, d)) + 1, group_id |-> g,
     participant_id |-> pid, result_date |-> d, status |-> status]

\* A plain INSERT on a table without the UNIQUE constraint.
upsert_daily_result_append(rows, g, pid, d, status) ==
    rows \cup {NewDailyRow(rows, g, pid, d, status)}

\* Database.upsert_daily_result: INSERT ... ON CONFLICT(...) DO UPDATE.
upsert_daily_result(rows, g, pid, d, status) ==
    IF DailyRows(rows, g, pid, d) # {}
    THEN {IF r.group_id = g /\ r.participant_id = pid /\ r.result_date = d
          THEN [r EXCEPT !.status = status] ELSE r : r \in rows}
    ELSE rows \cup {NewDailyRow(rows, g, pid, d, status)}

\* The status with the retraction test left out: a NULL option is not 0.
snapshot_status_no_retraction(p, poll, vrows) ==
    IF p.user_id = NULL \/ p.user_id = 0 \/ poll = {}
        \/ (\A r \in poll : r.tg_poll_id = NULL)
    THEN "missed"
    ELSE LET vote == get_vote(vrows, (CHOOSE r \in poll : TRUE).id, p.user_id)
         IN IF vote = {} THEN "missed"
            ELSE IF \A v \in vote : v.option_idx = 0 THEN "yes"
            ELSE "no"

\* snapshot_daily_results, lines 113-126: the status of participant row p,
\* given the day's poll row (or none) and the votes table.
snapshot_status(p, poll, vrows) ==
    IF p.user_id = NULL \/ p.user_id = 0 \/ poll = {}
        \/ (\A r \in poll : r.tg_poll_id = NULL)
    THEN "missed"
    ELSE LET vote == get_vote(vrows, (CHOOSE r \in poll : TRUE).id, p.user_id)
         IN IF vote = {} \/ (\A v \in vote : v.option_idx = NULL) THEN "missed"
            ELSE IF \A v \in vote : v.option_idx = 0 THEN "yes"
            ELSE "no"

\* snapshot_daily_results, lines 112-128: the loop over the participants.
RECURSIVE SnapshotLoop(_, _, _, _, _, _)
SnapshotLoop(drows, ps, poll, vrows, g, d) ==
    IF ps = <<>> THEN drows
    ELSE SnapshotLoop(
            upsert_daily_result(drows, g, Head(ps).id, d,
                                snapshot_status(Head(ps), poll, vrows)),
            Tail(ps), poll, vrows, g, d)

\* snapshot_daily_results as a function of the store: the new daily_results.
SnapshotResult(drows, prows, pollrows, vrows, g, d) ==
    SnapshotLoop(drows, ByDisplayName(get_active_participants(prows, g)),
                 get_poll_by_date(pollrows, g, d), vrows, g, d)

\* ------------------------------------------------------------ post_daily_poll
\* bot.send_poll succeeding: Telegram publishes the poll in the chat and
\* returns a message with a fresh poll id (the count of polls published so
\* far, plus one, serves as poll id and message id).  `day` is the day the
\* sender was working on: an observer's note, not something Telegram stores.
send_poll(tg, g, d) ==
    LET h == Cardinality(tg) + 1
    IN [tgPolls |-> tg \cup {[chat_id |-> g, day |-> d, tg_poll_id |-> h]},
        poll_msg |-> h]

IdleJob == [pc |-> "ready", group_id |-> NULL, today |-> NULL,
            poll_db_id |-> NULL, poll_msg |-> NULL, calls |-> 0]

InFlight(j) == j.pc \in {"reserved", "announced", "polled", "stored"}

\* Lines 40-46: read the day, reserve the slot, return if it is taken.
PollReserve(f, g) ==
    /\ pollJob[f].pc = "ready"
    /\ IF f = 1 THEN TRUE ELSE pollJob[f - 1].pc # "ready"
    /\ LET res == try_create_poll_slot(polls, g, today)
       IN /\ polls' = res.polls
          /\ pollJob' = [pollJob EXCEPT ![f] =
                [@ EXCEPT !.pc = IF res.ret = NULL THEN "skipped" ELSE "reserved",
                          !.group_id = g, !.today = today,
                          !.poll_db_id = res.ret]]
    /\ UNCHANGED <<ctlVars, weekVars, today, tgPolls, dayVars>>

\* Lines 48-66: bot.send_message with the mentions; it may raise.
PollAnnounce(f) ==
    /\ pollJob[f].pc = "reserved"
    /\ \/ /\ pollJob' = [pollJob EXCEPT ![f] =
                [@ EXCEPT !.pc = "announced", !.calls = @ + 1]]
          /\ polls' = polls
       \/ /\ pollJob' = [pollJob EXCEPT ![f] =
                [@ EXCEPT !.pc = "failed", !.calls = @ + 1]]
          /\ polls' = leave_slot_reserved(polls, pollJob[f].group_id, pollJob[f].today)
    /\ UNCHANGED <<ctlVars, weekVars, today, tgPolls, dayVars>>

\* Lines 68-76: bot.send_poll; on success Telegram has published the poll.
PollSend(f) ==
    /\ pollJob[f].pc = "announced"
    /\ \/ LET sent == send_poll(tgPolls, pollJob[f].group_id, pollJob[f].today)
          IN /\ pollJob' = [pollJob EXCEPT ![f] =
                    [@ EXCEPT !.pc = "polled", !.calls = @ + 1,
                              !.poll_msg = sent.poll_msg]]
             /\ tgPolls' = sent.tgPolls
             /\ polls' = polls
       \/ /\ pollJob' = [pollJob EXCEPT ![f] =
                [@ EXCEPT !.pc = "failed", !.calls = @ + 1]]
          /\ polls' = leave_slot_reserved(polls, pollJob[f].group_id, pollJob[f].today)
          /\ tgPolls' = tgPolls
    /\ UNCHANGED <<ctlVars, weekVars, today, dayVars>>

\* Lines 78-83: store the handles Telegram returned.
PollStoreIds(f) ==
    /\ pollJob[f].pc = "polled"
    /\ polls' = update_poll_telegram_ids(polls, pollJob[f].group_id,
                    pollJob[f].today, pollJob[f].poll_msg, pollJob[f].poll_msg)
    /\ pollJob' = [pollJob EXCEPT ![f] = [@ EXCEPT !.pc = "stored"]]
    /\ UNCHANGED <<ctlVars, weekVars, today, tgPolls, dayVars>>

\* Lines 85-93: pin the poll; a TelegramAPIError here is swallowed.
PollPin(f) ==
    /\ pollJob[f].pc = "stored"
    /\ pollJob' = [pollJob EXCEPT ![f] = [@ EXCEPT !.pc = "done", !.calls = @ + 1]]
    /\ UNCHANGED <<ctlVars, weekVars, today, polls, tgPolls, dayVars>>

\* --------------------------------------------------------- weekly rollup
\* date.weekday(): 0 on a Monday.
weekday(d) == d % WeekLength

Sunday == WeekLength - 1

\* utils.get_current_week_bounds and get_prev_week_bounds, at day t.
get_current_week_bounds(t) ==
    [week_start |-> t - weekday(t), week_end |-> t - weekday(t) + (WeekLength - 1)]

get_prev_week_bounds(t) ==
    LET current_monday == t - weekday(t)
    IN [week_start |-> current_monday - WeekLength, week_end |-> current_monday - 1]

\* SUM(CASE WHEN dr.status = .. THEN 1 ELSE 0 END) over the joined rows.
StatusCount(drows, pid, week_start, week_end, status) ==
    Cardinality({r \in drows : /\ r.participant_id = pid
                               /\ week_start <= r.result_date
                               /\ r.result_date <= week_end
                               /\ r.status = status})

LeaderRow(drows, p, week_start, week_end) ==
    [id |-> p.id, display_name |-> p.display_name, user_id |-> p.user_id,
     username |-> p.username,
     yes_count |-> StatusCount(drows, p.id, week_start, week_end, "yes"),
     no_count |-> StatusCount(drows, p.id, week_start, week_end, "no"),
     missed_count |-> StatusCount(drows, p.id, week_start, week_end, "missed")]

\* ORDER BY yes_count DESC alone: rows of equal yes_count in rowid order.
LeaderBefore_yes_only(x, y) ==
    \/ x.yes_count > y.yes_count
    \/ x.yes_count = y.yes_count /\ x.id <= y.id

\* ORDER BY yes_count DESC, display_name COLLATE NOCASE ASC (rows equal in
\* both in rowid order).
LeaderBefore(x, y) ==
    \/ x.yes_count > y.yes_count
    \/ /\ x.yes_count = y.yes_count
       /\ \/ NoCaseKey(x.display_name) < NoCaseKey(y.display_name)
          \/ /\ NoCaseKey(x.display_name) = NoCaseKey(y.display_name)
             /\ x.id <= y.id

RECURSIVE LeaderOrder(_)
LeaderOrder(rows) ==
    IF rows = {} THEN <<>>
    ELSE LET first == CHOOSE r \in rows : \A x \in rows : LeaderBefore(r, x)
         IN <<first>> \o LeaderOrder(rows \ {first})

\* Database.get_weekly_leaderboard
get_weekly_leaderboard(prows, drows, g, week_start, week_end) ==
    LeaderOrder({LeaderRow(drows, p, week_start, week_end) :
                    p \in {r \in prows : r.group_id = g /\ r.active = 1}})

\* Database.check_weekly_result_exists
WeeklyRows(rows, g, week_start) ==
    {r \in rows : r.group_id = g /\ r.week_start = week_start}

\* A check that never finds a row.
check_weekly_result_exists_never(rows, g, week_start) == FALSE

\* The idempotency check without the group: any row of the week counts.
check_weekly_result_exists_any_group(rows, g, week_start) ==
    \E r \in rows : r.week_start = week_start

check_weekly_result_exists(rows, g, week_start) ==
    WeeklyRows(rows, g, week_start) # {}

\* Database.insert_weekly_result: INSERT OR IGNORE under
\* UNIQUE(group_id, participant_id, week_start).
WeeklyKeyRows(rows, g, pid, week_start) ==
    {r \in rows : r.group_id = g /\ r.participant_id = pid /\ r.week_start = week_start}

NewWeeklyRow(rows, g, pid, week_start, yes, no, missed, rate, rank) ==
    [id |-> NextId(rows), group_id |-> g, participant_id |-> pid,
     week_start |-> week_start, total_yes |-> yes, total_no |-> no,
     total_missed |-> missed, completion_rate |-> rate, rank_pos |-> rank]

\* INSERT OR REPLACE: the row with the key is deleted and the new one stored.
insert_weekly_result_or_replace(rows, g, pid, week_start, yes, no, missed, rate, rank) ==
    (rows \ WeeklyKeyRows(rows, g, pid, week_start))
        \cup {NewWeeklyRow(rows, g, pid, week_start, yes, no, missed, rate, rank)}

insert_weekly_result(rows, g, pid, week_start, yes, no, missed, rate, rank) ==
    IF WeeklyKeyRows(rows, g, pid, week_start) # {} THEN rows
    ELSE rows \cup {NewWeeklyRow(rows, g, pid, week_start, yes, no, missed, rate, rank)}

\* jobs.py lines 190 and 202: round(yes / total_days * 100, 2), held as a
\* whole number of hundredths of a percent (round() rounds a tie to even).
Percent == 100
Hundredths == 100

\* The quotient cut off after the second decimal instead of rounded.
completion_rate_truncated(yes, total_days) ==
    (yes * Percent * Hundredths) \div total_days

completion_rate(yes, total_days) ==
    LET num == yes * Percent * Hundredths
        q == num \div total_days
        r == num % total_days
    IN IF 2 * r > total_days \/ (2 * r = total_days /\ q % 2 = 1)
       THEN q + 1 ELSE q

\* ------------------------------------------------------ handlers, run whole
\* What a handler leaves of snapRuns: a change of the store or of the day
\* ends every run of unchanged snapshots.
SnapRunsKept ==
    snapRuns' = IF /\ today' = today /\ polls' = polls /\ votes' = votes
                   /\ participants' = participants
                THEN snapRuns ELSE [g \in Groups |-> 0]

\* post_daily_poll from its first line to its last with no other coroutine
\* in between; ok tells whether the transport calls succeed, and day is
\* what get_almaty_today() gives on line 40.
PostDailyPollOn(g, ok, day) ==
    LET res == try_create_poll_slot(polls, g, day)
        sent == send_poll(tgPolls, g, day)
    IN IF res.ret = NULL
       THEN polls' = polls /\ tgPolls' = tgPolls
       ELSE IF ok
       THEN /\ polls' = update_poll_telegram_ids(res.polls, g, day,
                             sent.poll_msg, sent.poll_msg)
            /\ tgPolls' = sent.tgPolls
       ELSE /\ polls' = leave_slot_reserved(res.polls, g, day)
            /\ tgPolls' = tgPolls

\* The same when get_almaty_today() gives the day of the model's clock.
PostDailyPoll(g, ok) == PostDailyPollOn(g, ok, today)

RunDailyPoll(g, ok) ==
    /\ PostDailyPoll(g, ok)
    /\ UNCHANGED <<ctlVars, weekVars, today, pollJob, votes, participants, daily_results, lastAnswer>>
    /\ SnapRunsKept

\* The history note of an answer that reached upsert_vote: the option list of
\* the last one, and whether a retraction has ever replaced a choice.
NoteAnswer(log, h, u, option_ids) ==
    LET old == {a \in log : a.tg_poll_id = h /\ a.user_id = u}
    IN (log \ old) \cup
       {[tg_poll_id |-> h, user_id |-> u, option_ids |-> option_ids,
         retracted |-> \E a \in old :
            a.retracted \/ (a.option_ids # <<>> /\ option_ids = <<>>)]}

\* on_poll_answer ending at line 50, after the vote is stored.
PollAnswer_vote_only(u, h, option_ids) ==
    LET poll == get_poll_by_tg_id(polls, h)
    IN IF poll = {}
       THEN UNCHANGED <<votes, participants, lastAnswer>>
       ELSE LET row == CHOOSE r \in poll : TRUE
            IN /\ votes' = upsert_vote(votes, row.id, u, decode_option(option_ids))
               /\ lastAnswer' = NoteAnswer(lastAnswer, h, u, option_ids)
               /\ participants' = participants

\* on_poll_answer: a poll_answer update from user u for the poll with
\* Telegram id h.  The pending-participant resolution runs after the vote is
\* stored; an IntegrityError it raises leaves the vote in place.
PollAnswer(u, h, option_ids) ==
    LET poll == get_poll_by_tg_id(polls, h)
    IN IF poll = {}
       THEN UNCHANGED <<votes, participants, lastAnswer>>
       ELSE LET row == CHOOSE r \in poll : TRUE
            IN /\ votes' = upsert_vote(votes, row.id, u, decode_option(option_ids))
               /\ lastAnswer' = NoteAnswer(lastAnswer, h, u, option_ids)
               /\ participants' =
                     IF Username(u) = "" THEN participants
                     ELSE resolve_pending_by_username(participants,
                             row.group_id, Username(u), u, FullName(u)).participants

OnPollAnswer(u, h, option_ids) ==
    /\ PollAnswer(u, h, option_ids)
    /\ UNCHANGED <<ctlVars, weekVars, today, polls, pollJob, tgPolls, daily_results>>
    /\ SnapRunsKept

NoEvent == [seq |-> 0, user_id |-> NULL, poll_id |-> NULL, raised |-> FALSE]

\* What leaves on_poll_answer as an exception: the IntegrityError of
\* resolve_pending_by_username, which no line of the handler catches.
PollAnswerRaises(u, h) ==
    LET poll == get_poll_by_tg_id(polls, h)
    IN /\ poll # {} /\ Username(u) # ""
       /\ \E row \in poll :
            resolve_pending_by_username(participants, row.group_id, Username(u),
                                        u, FullName(u)).ret = "IntegrityError"

\* on_poll_answer with the update and its outcome noted.
OnPollAnswerEvent(u, h, option_ids) ==
    /\ PollAnswer(u, h, option_ids)
    /\ answerEvent' = [seq |-> 1 - answerEvent.seq, user_id |-> u, poll_id |-> h,
                       raised |-> PollAnswerRaises(u, h)]
    /\ UNCHANGED <<regVars, schedVars, admVars, weekVars, today, polls, pollJob,
                   tgPolls, daily_results>>
    /\ SnapRunsKept

\* snapshot_daily_results for group g.
Snapshot(g) ==
    /\ daily_results' = SnapshotResult(daily_results, participants, polls,
                                       votes, g, today)
    /\ snapRuns' = [snapRuns EXCEPT ![g] = IF @ < 2 THEN @ + 1 ELSE @]
    /\ UNCHANGED <<ctlVars, weekVars, today, polls, pollJob, tgPolls, votes, participants, lastAnswer>>

\* GroupRegistrationMiddleware, lines 63-80, on a message of user u in group
\* g that carries username n; "none" when the method is not called.
MiddlewareAs(rows, g, u, n) ==
    IF n = "" THEN [participants |-> rows, ret |-> "none"]
    ELSE resolve_pending_by_username(rows, g, n, u, FullName(u))

Middleware(rows, g, u) == MiddlewareAs(rows, g, u, Username(u))

\* cmd_join behind the middleware; an exception in the middleware ends the
\* update before the handler runs.
CmdJoin(g, u) ==
    LET m == Middleware(participants, g, u)
        existing == get_participant_by_user_id(m.participants, g, u)
    IN /\ participants' =
            IF m.ret = "IntegrityError" THEN m.participants
            ELSE IF existing # {} /\ (\A r \in existing : r.active = 1)
            THEN m.participants
            ELSE upsert_participant(m.participants, g, u, Username(u), FullName(u))
       /\ UNCHANGED <<ctlVars, weekVars, today, polls, pollJob, tgPolls, votes, daily_results, lastAnswer>>
       /\ SnapRunsKept

\* cmd_leave behind the middleware.
CmdLeave(g, u) ==
    LET m == Middleware(participants, g, u)
    IN /\ participants' =
            IF m.ret = "IntegrityError" THEN m.participants
            ELSE deactivate_participant_by_user_id(m.participants, g, u)
       /\ UNCHANGED <<ctlVars, weekVars, today, polls, pollJob, tgPolls, votes, daily_results, lastAnswer>>
       /\ SnapRunsKept

\* cmd_add, case B: /add @username by an admin.
CmdAdd(g, username) ==
    LET existing == get_participant_by_username(participants, g, username)
    IN /\ participants' =
            IF existing # {} /\ (\A r \in existing : r.user_id # NULL /\ r.user_id # 0)
            THEN LET e == CHOOSE r \in existing : TRUE
                 IN upsert_participant(participants, g, e.user_id, username,
                                       e.display_name)
            ELSE add_pending_participant(participants, g, username)
       /\ UNCHANGED <<ctlVars, weekVars, today, polls, pollJob, tgPolls, votes, daily_results, lastAnswer>>
       /\ SnapRunsKept

\* cmd_remove, case B: /remove @username by an admin.
CmdRemove(g, username) ==
    /\ participants' = deactivate_participant_by_username(participants, g, username)
    /\ UNCHANGED <<ctlVars, weekVars, today, polls, pollJob, tgPolls, votes, daily_results, lastAnswer>>
    /\ SnapRunsKept

\* Midnight in Asia/Almaty.
Midnight ==
    /\ today < MaxDay
    /\ today' = today + 1
    /\ snapRuns' = [g \in Groups |-> 0]
    /\ UNCHANGED <<ctlVars, weekVars, polls, pollJob, tgPolls, votes, participants,
                   daily_results, lastAnswer>>

\* ------------------------------------------------- participant registry
\* The last call of a participants write method: its arguments, the id it
\* returned (upsert, add_pending) or its verdict (resolve, deactivate).  seq
\* flips with every call, so that a step is a call iff seq changes.
\* held: the row the user had before the call; count: the rows of the group
\* before the call.
NoCall == [seq |-> 0, op |-> "none", group_id |-> NULL, user_id |-> NULL,
           username |-> "", id |-> NULL, ok |-> "none", held |-> "none",
           count |-> 0]

Call(op, g, u, n, id, ok) ==
    [seq |-> 1 - regCall.seq, op |-> op, group_id |-> g, user_id |-> u,
     username |-> n, id |-> id, ok |-> ok,
     held |-> IF u = NULL \/ RowsByUserId(participants, g, u) = {} THEN "none"
              ELSE IF \A r \in RowsByUserId(participants, g, u) : r.active = 1
              THEN "active" ELSE "inactive",
     count |-> Cardinality({r \in participants : r.group_id = g})]

\* A handler between two of its awaits: its arguments and the row its lookup
\* fetched.
IdleTask == [pc |-> "idle", group_id |-> NULL, user_id |-> NULL,
             username |-> "", existing |-> {}]

RegFrame ==
    /\ UNCHANGED <<schedVars, admVars, evVars, weekVars, today, polls, pollJob, tgPolls, votes,
                   daily_results, lastAnswer>>
    /\ SnapRunsKept

\* Any message of user u, carrying username n, in group g: the middleware
\* alone (kind "text"), or the middleware and then /join or /leave up to the
\* handler's first await.  An exception in the middleware ends the update.
RegMessage(t, g, u, n, kind) ==
    /\ regJob[t].pc = "idle"
    /\ LET m == MiddlewareAs(participants, g, u, n)
       IN /\ participants' = m.participants
          /\ regCall' = IF m.ret = "none" THEN regCall
                        ELSE Call("resolve_pending_by_username", g, u, n, NULL, m.ret)
          /\ regJob' = [regJob EXCEPT ![t] =
                IF m.ret = "IntegrityError" \/ kind = "text" THEN IdleTask
                ELSE [IdleTask EXCEPT !.pc = kind, !.group_id = g,
                                      !.user_id = u, !.username = n]]
    /\ RegFrame

\* cmd_join, lines 43-46: already an active participant, or go on to enrol.
RegJoinLookup(t) ==
    /\ regJob[t].pc = "join"
    /\ LET j == regJob[t]
           existing == get_participant_by_user_id(participants, j.group_id, j.user_id)
       IN regJob' = [regJob EXCEPT ![t] =
            IF existing # {} /\ (\A r \in existing : r.active = 1) THEN IdleTask
            ELSE [j EXCEPT !.pc = "join_upsert"]]
    /\ UNCHANGED <<participants, regCall>>
    /\ RegFrame

\* cmd_join, line 48.
RegJoinUpsert(t) ==
    /\ regJob[t].pc = "join_upsert"
    /\ LET j == regJob[t]
       IN /\ participants' = upsert_participant(participants, j.group_id,
                                j.user_id, j.username, FullName(j.user_id))
          /\ regCall' = Call("upsert_participant", j.group_id, j.user_id, j.username,
                            upsert_participant_id(participants, j.group_id,
                                                  j.user_id, j.username), "none")
    /\ regJob' = [regJob EXCEPT ![t] = IdleTask]
    /\ RegFrame

\* cmd_leave, line 64.
RegLeave(t) ==
    /\ regJob[t].pc = "leave"
    /\ LET j == regJob[t]
       IN /\ participants' = deactivate_participant_by_user_id(participants,
                                j.group_id, j.user_id)
          /\ regCall' = Call("deactivate_participant_by_user_id", j.group_id,
                            j.user_id, "", NULL,
                            Deactivated(get_participant_by_user_id(participants,
                                            j.group_id, j.user_id)))
    /\ regJob' = [regJob EXCEPT ![t] = IdleTask]
    /\ RegFrame

\* cmd_add, case A: the admin replies to a message of user u, who carries
\* username n.  (The admin is an account nobody enrols: the middleware finds
\* nothing to resolve for it.)
RegAddReply(g, u, n) ==
    /\ participants' = upsert_participant(participants, g, u, n, FullName(u))
    /\ regCall' = Call("upsert_participant", g, u, n,
                       upsert_participant_id(participants, g, u, n), "none")
    /\ UNCHANGED regJob
    /\ RegFrame

\* cmd_add, case B, line 217: look the username up.
RegAddLookup(t, g, a) ==
    /\ regJob[t].pc = "idle"
    /\ regJob' = [regJob EXCEPT ![t] =
            [IdleTask EXCEPT !.pc = "add_enrol", !.group_id = g, !.username = a,
                !.existing = get_participant_by_username(participants, g, a)]]
    /\ UNCHANGED <<participants, regCall>>
    /\ RegFrame

\* cmd_add, case B, lines 218-225: enrol by the identity of the row found, or
\* by username alone.
RegAddEnrol(t) ==
    /\ regJob[t].pc = "add_enrol"
    /\ LET j == regJob[t]
           known == j.existing # {} /\
                    (\A r \in j.existing : r.user_id # NULL /\ r.user_id # 0)
           e == CHOOSE r \in j.existing : TRUE
       IN IF known
          THEN /\ participants' = upsert_participant(participants, j.group_id,
                                    e.user_id, j.username, e.display_name)
               /\ regCall' = Call("upsert_participant", j.group_id, e.user_id,
                                j.username,
                                upsert_participant_id(participants, j.group_id,
                                                      e.user_id, j.username), "none")
          ELSE /\ participants' = add_pending_participant(participants,
                                    j.group_id, j.username)
               /\ regCall' = Call("add_pending_participant", j.group_id, NULL,
                                j.username,
                                add_pending_participant_id(participants,
                                    j.group_id, j.username), "none")
    /\ regJob' = [regJob EXCEPT ![t] = IdleTask]
    /\ RegFrame

\* cmd_remove, case A (reply to user u) and case B (@username).
RegRemoveReply(g, u) ==
    /\ participants' = deactivate_participant_by_user_id(participants, g, u)
    /\ regCall' = Call("deactivate_participant_by_user_id", g, u, "", NULL,
                       Deactivated(get_participant_by_user_id(participants, g, u)))
    /\ UNCHANGED regJob
    /\ RegFrame

RegRemove(g, a) ==
    /\ participants' = deactivate_participant_by_username(participants, g, a)
    /\ regCall' = Call("deactivate_participant_by_username", g, NULL, a, NULL,
                       Deactivated(get_participant_by_username(participants, g, a)))
    /\ UNCHANGED regJob
    /\ RegFrame

\* ------------------------------- participant writes, statement by statement
\* Every await of upsert_participant and resolve_pending_by_username is a point
\* where another handler's statements run; a statement itself is atomic (one
\* connection).  regJob[t].existing holds the row the task's SELECT fetched.

\* A table without the index: nothing is refused.
UniqueViolation_no_index(rows, id, g, u) == FALSE

\* The unique index ux_participants_group_user refuses to give row id the
\* user u when another row of group g has it.
UniqueViolation(rows, id, g, u) ==
    \E r \in rows : r.id # id /\ r.group_id = g /\ r.user_id = u

\* UPDATE participants SET ... WHERE id=?: the columns named in set are
\* written into the row as it is now.
UpdateWhereId(rows, id, set) ==
    {IF r.id = id THEN [f \in DOMAIN r |-> IF f \in DOMAIN set THEN set[f] ELSE r[f]]
     ELSE r : r \in rows}

SqlFrame ==
    /\ UNCHANGED <<schedVars, admVars, evVars, weekVars, today, polls, pollJob, tgPolls, votes,
                   daily_results, lastAnswer>>
    /\ SnapRunsKept

SqlReturn(t, op, id, ok) ==
    /\ regCall' = Call(op, regJob[t].group_id, regJob[t].user_id,
                       regJob[t].username, id, ok)
    /\ regJob' = [regJob EXCEPT ![t] = IdleTask]

\* A handler calls upsert_participant(g, u, n, ...) or, from the middleware,
\* resolve_pending_by_username(g, n, u, ...).
SqlCall(t, g, u, n, op) ==
    /\ regJob[t].pc = "idle"
    /\ op = "resolve" => n # ""
    /\ regJob' = [regJob EXCEPT ![t] =
            [IdleTask EXCEPT !.pc = IF op = "upsert" THEN "upsert_select_user"
                                   ELSE "resolve_select",
                             !.group_id = g, !.user_id = u, !.username = n]]
    /\ UNCHANGED <<participants, regCall>>
    /\ SqlFrame

\* upsert_participant, line 212.
UpsertSelectUser(t) ==
    /\ regJob[t].pc = "upsert_select_user"
    /\ LET j == regJob[t]
           existing == get_participant_by_user_id(participants, j.group_id, j.user_id)
       IN regJob' = [regJob EXCEPT ![t].existing = existing,
                ![t].pc = IF existing # {} THEN "upsert_update"
                          ELSE IF j.username # "" THEN "upsert_select_name"
                          ELSE "upsert_insert"]
    /\ UNCHANGED <<participants, regCall>>
    /\ SqlFrame

\* upsert_participant, lines 214-220.
UpsertUpdate(t) ==
    /\ regJob[t].pc = "upsert_update"
    /\ LET j == regJob[t]
           e == CHOOSE r \in j.existing : TRUE
       IN /\ participants' = UpdateWhereId(participants, e.id,
                [username |-> j.username, display_name |-> FullName(j.user_id),
                 active |-> 1, pending |-> 0])
          /\ SqlReturn(t, "upsert_participant", e.id, "none")
    /\ SqlFrame

\* upsert_participant, lines 223-225.
UpsertSelectName(t) ==
    /\ regJob[t].pc = "upsert_select_name"
    /\ LET j == regJob[t]
           pending == {r \in get_participant_by_username(participants,
                                j.group_id, j.username) : r.user_id = NULL}
       IN regJob' = [regJob EXCEPT ![t].existing = pending,
                ![t].pc = IF pending # {} THEN "upsert_bind" ELSE "upsert_insert"]
    /\ UNCHANGED <<participants, regCall>>
    /\ SqlFrame

\* upsert_participant, lines 226-232.
UpsertBind(t) ==
    /\ regJob[t].pc = "upsert_bind"
    /\ LET j == regJob[t]
           e == CHOOSE r \in j.existing : TRUE
       IN IF UniqueViolation(participants, e.id, j.group_id, j.user_id)
          THEN /\ participants' = participants
               /\ SqlReturn(t, "upsert_participant", NULL, "IntegrityError")
          ELSE /\ participants' = UpdateWhereId(participants, e.id,
                    [user_id |-> j.user_id, display_name |-> FullName(j.user_id),
                     active |-> 1, pending |-> 0])
               /\ SqlReturn(t, "upsert_participant", e.id, "none")
    /\ SqlFrame

\* upsert_participant, lines 234-239.
UpsertInsert(t) ==
    /\ regJob[t].pc = "upsert_insert"
    /\ LET j == regJob[t]
       IN IF UniqueViolation(participants, NULL, j.group_id, j.user_id)
          THEN /\ participants' = participants
               /\ SqlReturn(t, "upsert_participant", NULL, "IntegrityError")
          ELSE /\ participants' = participants \cup
                    {[id |-> NextId(participants), group_id |-> j.group_id,
                      user_id |-> j.user_id, username |-> j.username,
                      display_name |-> FullName(j.user_id),
                      active |-> 1, pending |-> 0]}
               /\ SqlReturn(t, "upsert_participant", NextId(participants), "none")
    /\ SqlFrame

\* resolve_pending_by_username, lines 264-269.
ResolveSelect(t) ==
    /\ regJob[t].pc = "resolve_select"
    /\ LET j == regJob[t]
           row == PendingByUsername(participants, j.group_id, j.username)
       IN IF row = {}
          THEN SqlReturn(t, "resolve_pending_by_username", NULL, "false")
          ELSE /\ regJob' = [regJob EXCEPT ![t].existing = row,
                                           ![t].pc = "resolve_update"]
               /\ regCall' = regCall
    /\ UNCHANGED participants
    /\ SqlFrame

\* resolve_pending_by_username, lines 270-277.
ResolveUpdate(t) ==
    /\ regJob[t].pc = "resolve_update"
    /\ LET j == regJob[t]
           e == CHOOSE r \in j.existing : TRUE
       IN IF UniqueViolation(participants, e.id, j.group_id, j.user_id)
          THEN /\ participants' = participants
               /\ SqlReturn(t, "resolve_pending_by_username", NULL, "IntegrityError")
          ELSE /\ participants' = UpdateWhereId(participants, e.id,
                    [user_id |-> j.user_id, display_name |-> FullName(j.user_id),
                     pending |-> 0])
               /\ SqlReturn(t, "resolve_pending_by_username", e.id, "true")
    /\ SqlFrame

\* cmd_add, case B, for a username no row with an identity carries: the
\* handler calls add_pending_participant(g, username).
AddPendingCall(t, g, username) ==
    /\ regJob[t].pc = "idle"
    /\ regJob' = [regJob EXCEPT ![t] =
            [IdleTask EXCEPT !.pc = "add_select", !.group_id = g,
                             !.username = username]]
    /\ UNCHANGED <<participants, regCall>>
    /\ SqlFrame

\* add_pending_participant, line 243.
AddPendingSelect(t) ==
    /\ regJob[t].pc = "add_select"
    /\ LET j == regJob[t]
           existing == get_participant_by_username(participants, j.group_id,
                                                   j.username)
       IN regJob' = [regJob EXCEPT ![t].existing = existing,
                ![t].pc = IF existing # {} THEN "add_activate" ELSE "add_insert"]
    /\ UNCHANGED <<participants, regCall>>
    /\ SqlFrame

\* add_pending_participant, lines 244-248.
AddPendingActivate(t) ==
    /\ regJob[t].pc = "add_activate"
    /\ LET e == CHOOSE r \in regJob[t].existing : TRUE
       IN /\ participants' = UpdateWhereId(participants, e.id, [active |-> 1])
          /\ SqlReturn(t, "add_pending_participant", e.id, "none")
    /\ SqlFrame

\* add_pending_participant, lines 249-254: no index of the table covers the
\* username, so the INSERT is never refused.
AddPendingInsert(t) ==
    /\ regJob[t].pc = "add_insert"
    /\ LET j == regJob[t]
       IN /\ participants' = participants \cup
                {[id |-> NextId(participants), group_id |-> j.group_id,
                  user_id |-> NULL, username |-> j.username,
                  display_name |-> j.username, active |-> 1, pending |-> 1]}
          /\ SqlReturn(t, "add_pending_participant", NextId(participants), "none")
    /\ SqlFrame

\* ---------------------------------------------------- groups and settings
GroupRow(g) == [group_id |-> g, active |-> 1]

SettingsRow(g) == [group_id |-> g, poll_time |-> DefaultPollTime, challenge_active |-> 0]

\* Database.get_or_create_group: two INSERT OR IGNORE.
get_or_create_group(rows, g) ==
    IF \E r \in rows : r.group_id = g THEN rows ELSE rows \cup {GroupRow(g)}

get_or_create_settings(rows, g) ==
    IF \E r \in rows : r.group_id = g THEN rows ELSE rows \cup {SettingsRow(g)}

\* deactivate_group, the UPDATE of the groups table; its UPDATE of settings
\* is set_challenge_active(rows, g, FALSE).  No statement sets active to 1.
deactivate_group(rows, g) ==
    {IF r.group_id = g THEN [r EXCEPT !.active = 0] ELSE r : r \in rows}

get_settings(rows, g) == {r \in rows : r.group_id = g}

\* Clearing the flag by deleting the group's settings row.
set_challenge_active_delete(rows, g, active) ==
    IF active
    THEN {IF r.group_id = g THEN [r EXCEPT !.challenge_active = 1] ELSE r : r \in rows}
    ELSE {r \in rows : r.group_id # g}

set_challenge_active(rows, g, active) ==
    {IF r.group_id = g THEN [r EXCEPT !.challenge_active = IF active THEN 1 ELSE 0]
     ELSE r : r \in rows}

set_poll_time(rows, g, poll_time) ==
    {IF r.group_id = g THEN [r EXCEPT !.poll_time = poll_time] ELSE r : r \in rows}

\* Database.get_all_active_challenges: groups JOIN settings.
get_all_active_challenges(grows, srows) ==
    {s \in srows : s.challenge_active = 1 /\
        \E g \in grows : g.group_id = s.group_id /\ g.active = 1}

\* -------------------------------------------------------------- scheduler
\* The instant (day, slot) as one number.
At(day, slot) == day * SlotsPerDay + slot

\* CronTrigger: the first instant after `after` at time of day `slot`, of a
\* cron that comes round every `period` slots.
NextFire(slot, period, after) ==
    CHOOSE t \in (after + 1)..(after + period) : t % period = slot

Job(kind, g, slot, period, after) ==
    [kind |-> kind, group_id |-> g, time |-> slot, period |-> period,
     next_run |-> NextFire(slot, period, after)]

\* scheduler.add_job(..., id=f"{kind}_{g}") without replace_existing, on a job
\* store that does not check ids.
add_job_keep_existing(store, job) == store \cup {job}

\* scheduler.add_job(..., id=f"{kind}_{g}", replace_existing=True).
add_job(store, job) ==
    {j \in store : ~(j.kind = job.kind /\ j.group_id = job.group_id)} \cup {job}

\* jobs.schedule_group_jobs at the instant `after`.
schedule_group_jobs(store, g, poll_time, after) ==
    LET a == add_job(store, Job("poll", g, poll_time, SlotsPerDay, after))
        b == add_job(a, Job("snapshot", g, SnapshotSlot, SlotsPerDay, after))
    IN add_job(b, Job("weekly", g, WeeklySlot, SlotsPerDay * WeekLength, after))

\* remove_group_jobs with a loop that stops after the first prefix.
remove_group_jobs_poll_only(store, g) ==
    {j \in store : ~(j.group_id = g /\ j.kind = "poll")}

\* jobs.remove_group_jobs.
remove_group_jobs(store, g) == {j \in store : j.group_id # g}

RECURSIVE RestoreJobs(_, _, _)
\* main, lines 158-160: schedule_group_jobs for every row of
\* get_all_active_challenges, on the empty job store of a new process.
RestoreJobs(store, active, after) ==
    IF active = {} THEN store
    ELSE LET row == CHOOSE r \in active : \A x \in active : r.group_id <= x.group_id
         IN RestoreJobs(schedule_group_jobs(store, row.group_id, row.poll_time, after),
                        active \ {row}, after)

SchedFrame ==
    UNCHANGED <<regVars, admVars, evVars, weekVars, pollJob, votes, participants, lastAnswer>>

StoreFrame == UNCHANGED <<polls, tgPolls, daily_results, snapRuns>>

\* GroupRegistrationMiddleware, line 63, ahead of every handler of a group chat.
Registered(g) ==
    [groups |-> get_or_create_group(groups, g),
     settings |-> get_or_create_settings(settings, g)]

\* Any message in group g that is no admin command.
GroupMessage(g) ==
    /\ groups' = Registered(g).groups
    /\ settings' = Registered(g).settings
    /\ UNCHANGED <<jobs, now, today, fired, supplied, boot, delivery>>
    /\ SchedFrame /\ StoreFrame

\* on_bot_added: the bot is made a member of group g ...
BotAdded(g) ==
    /\ groups' = get_or_create_group(groups, g)
    /\ settings' = get_or_create_settings(settings, g)
    /\ UNCHANGED <<jobs, now, today, fired, supplied, boot, delivery>>
    /\ SchedFrame /\ StoreFrame

\* ... or is kicked from it, or leaves it.
BotRemoved(g) ==
    /\ groups' = deactivate_group(groups, g)
    /\ settings' = set_challenge_active(settings, g, FALSE)
    /\ UNCHANGED <<jobs, now, today, fired, supplied, boot, delivery>>
    /\ SchedFrame /\ StoreFrame

\* cmd_challenge_start.
CmdChallengeStart(g) ==
    LET reg == Registered(g)
        st == CHOOSE r \in get_settings(reg.settings, g) : TRUE
    IN /\ groups' = reg.groups
       /\ IF st.challenge_active = 1
          THEN settings' = reg.settings /\ UNCHANGED <<jobs, supplied>>
          ELSE /\ settings' = set_challenge_active(reg.settings, g, TRUE)
               /\ jobs' = schedule_group_jobs(jobs, g, st.poll_time, At(today, now))
               /\ supplied' = [supplied EXCEPT ![g] = st.poll_time]
       /\ UNCHANGED <<now, today, fired, boot, delivery>>
       /\ SchedFrame /\ StoreFrame

\* cmd_challenge_stop.
CmdChallengeStop(g) ==
    LET reg == Registered(g)
        st == CHOOSE r \in get_settings(reg.settings, g) : TRUE
    IN /\ groups' = reg.groups
       /\ IF st.challenge_active = 0
          THEN settings' = reg.settings /\ UNCHANGED jobs
          ELSE /\ settings' = set_challenge_active(reg.settings, g, FALSE)
               /\ jobs' = remove_group_jobs(jobs, g)
       /\ supplied' = IF st.challenge_active = 0 THEN supplied
                      ELSE [supplied EXCEPT ![g] = NULL]
       /\ UNCHANGED <<now, today, fired, boot, delivery>>
       /\ SchedFrame /\ StoreFrame

\* cmd_set_time from line 119 on, behind the middleware.
SetTime(g, poll_time) ==
    LET reg == Registered(g)
        st == CHOOSE r \in get_settings(reg.settings, g) : TRUE
    IN /\ groups' = reg.groups
       /\ settings' = set_poll_time(reg.settings, g, poll_time)
       /\ IF st.challenge_active = 1
          THEN /\ jobs' = schedule_group_jobs(jobs, g, poll_time, At(today, now))
               /\ supplied' = [supplied EXCEPT ![g] = poll_time]
          ELSE UNCHANGED <<jobs, supplied>>
       /\ UNCHANGED <<now, today, fired, boot, delivery>>

\* cmd_set_time with a well-formed HH:MM.
CmdSetTime(g, poll_time) == SetTime(g, poll_time) /\ SchedFrame /\ StoreFrame

\* ------------------------------------------------ the argument of /set_time
\* The characters an argument is written with here, and all arguments of up
\* to MaxArgLen of them (command.args stripped; <<>> when there is none).
ArgChars == {"0", "2", "6", ":"}

RECURSIVE Texts(_)
Texts(n) ==
    IF n = 0 THEN {<<>>}
    ELSE Texts(n - 1) \cup {Append(w, c) : w \in {x \in Texts(n - 1) : Len(x) = n - 1},
                                          c \in ArgChars}

Args == Texts(MaxArgLen)

DigitOf ==
    "0" :> 0 @@ "1" :> 1 @@ "2" :> 2 @@ "3" :> 3 @@ "4" :> 4 @@
    "5" :> 5 @@ "6" :> 6 @@ "7" :> 7 @@ "8" :> 8 @@ "9" :> 9

IsDigit(c) == c \in DOMAIN DigitOf

\* [0-2]?\d
HourMatch_any_hour_digits(h) ==
    \/ Len(h) = 1 /\ IsDigit(h[1])
    \/ Len(h) = 2 /\ h[1] \in {"0", "1", "2"} /\ IsDigit(h[2])

\* ([01]?\d|2[0-3])
HourMatch(h) ==
    \/ Len(h) = 1 /\ IsDigit(h[1])
    \/ Len(h) = 2 /\ h[1] \in {"0", "1"} /\ IsDigit(h[2])
    \/ Len(h) = 2 /\ h[1] = "2" /\ h[2] \in {"0", "1", "2", "3"}

\* [0-5]\d
MinuteMatch(m) ==
    Len(m) = 2 /\ m[1] \in {"0", "1", "2", "3", "4", "5"} /\ IsDigit(m[2])

\* re.fullmatch(r"([01]?\d|2[0-3]):[0-5]\d", raw)
fullmatch(raw) ==
    \E i \in 1..Len(raw) :
        /\ raw[i] = ":"
        /\ HourMatch(SubSeq(raw, 1, i - 1))
        /\ MinuteMatch(SubSeq(raw, i + 1, Len(raw)))

\* int() of a text of digits.
RECURSIVE int(_)
int(w) ==
    IF w = <<>> THEN 0
    ELSE 10 * int(SubSeq(w, 1, Len(w) - 1)) + DigitOf[w[Len(w)]]

\* hour, minute = map(int, poll_time.split(":")), for a text that matched.
split(raw) ==
    LET i == CHOOSE k \in 1..Len(raw) : raw[k] = ":"
    IN [hour |-> int(SubSeq(raw, 1, i - 1)),
        minute |-> int(SubSeq(raw, i + 1, Len(raw)))]

\* The poll slot of the day a time of day falls in.
PollSlot(raw) ==
    LET t == split(raw)
    IN DefaultPollTime +
       ((t.hour * 60 + t.minute) * Cardinality(PollTimes)) \div (24 * 60)

NoArg == [seq |-> 0, group_id |-> NULL, raw |-> <<>>]

\* cmd_set_time with whatever follows the command.
CmdSetTimeArg(g, raw) ==
    /\ IF fullmatch(raw)
       THEN SetTime(g, PollSlot(raw))
       ELSE /\ groups' = Registered(g).groups
            /\ settings' = Registered(g).settings
            /\ UNCHANGED <<jobs, now, today, fired, supplied, boot, delivery>>
    /\ timeArg' = [seq |-> 1 - timeArg.seq, group_id |-> g, raw |-> raw]
    /\ UNCHANGED <<regVars, evVars, admJob, weekVars, pollJob, votes, participants, lastAnswer>>
    /\ StoreFrame

\* ------------------------------------------- the admin commands, by steps
\* aiogram runs the handler of each update as a task of its own, and a task
\* gives way at every await: after the middleware's get_or_create_group,
\* after get_settings, and after the handler's write.  The call of
\* schedule_group_jobs or remove_group_jobs follows the write with no await
\* in between.
IdleAdm ==
    [pc |-> "idle", op |-> "none", group_id |-> NULL, poll_time |-> NULL,
     settings |-> {}]

AdmFrame ==
    /\ UNCHANGED <<regVars, evVars, weekVars, pollJob, votes, participants, lastAnswer>>
    /\ UNCHANGED <<now, today, fired, boot, delivery, timeArg>>
    /\ StoreFrame

\* /challenge_start, /challenge_stop or /set_time HH:MM arrives in group g:
\* the middleware registers the group.
AdmMessage(t, g, op, poll_time) ==
    /\ admJob[t].pc = "idle"
    /\ groups' = Registered(g).groups
    /\ settings' = Registered(g).settings
    /\ admJob' = [admJob EXCEPT ![t] =
            [pc |-> "get_settings", op |-> op, group_id |-> g,
             poll_time |-> IF op = "set_time" THEN poll_time ELSE NULL,
             settings |-> {}]]
    /\ UNCHANGED <<jobs, supplied>>
    /\ AdmFrame

\* settings = await db.get_settings(group_id), and the early returns of
\* cmd_challenge_start and cmd_challenge_stop.
AdmGetSettings(t) ==
    /\ admJob[t].pc = "get_settings"
    /\ LET j == admJob[t]
           st == get_settings(settings, j.group_id)
           active == \E r \in st : r.challenge_active = 1
           returns == \/ j.op = "challenge_start" /\ (st = {} \/ active)
                      \/ j.op = "challenge_stop" /\ ~active
       IN admJob' = [admJob EXCEPT ![t] =
            IF returns THEN IdleAdm
            ELSE [j EXCEPT !.pc = "write", !.settings = st]]
    /\ UNCHANGED <<groups, settings, jobs, supplied>>
    /\ AdmFrame

\* The write of the handler and what it does to the job store, with the
\* settings the task read at AdmGetSettings.
AdmWrite(t) ==
    /\ admJob[t].pc = "write"
    /\ LET j == admJob[t]
           g == j.group_id
           active == \E r \in j.settings : r.challenge_active = 1
       IN CASE j.op = "challenge_start" ->
                LET st == CHOOSE r \in j.settings : TRUE
                IN /\ settings' = set_challenge_active(settings, g, TRUE)
                   /\ jobs' = schedule_group_jobs(jobs, g, st.poll_time, At(today, now))
                   /\ supplied' = [supplied EXCEPT ![g] = st.poll_time]
            [] j.op = "challenge_stop" ->
                /\ settings' = set_challenge_active(settings, g, FALSE)
                /\ jobs' = remove_group_jobs(jobs, g)
                /\ supplied' = [supplied EXCEPT ![g] = NULL]
            [] j.op = "set_time" ->
                /\ settings' = set_poll_time(settings, g, j.poll_time)
                /\ IF active
                   THEN /\ jobs' = schedule_group_jobs(jobs, g, j.poll_time, At(today, now))
                        /\ supplied' = [supplied EXCEPT ![g] = j.poll_time]
                   ELSE UNCHANGED <<jobs, supplied>>
    /\ admJob' = [admJob EXCEPT ![t] = IdleAdm]
    /\ UNCHANGED groups
    /\ AdmFrame

\* The process stops and main runs again: the job store is in memory, and is
\* filled from the settings of the active challenges.
Restore ==
    /\ jobs' = RestoreJobs({}, get_all_active_challenges(groups, settings),
                           At(today, now))
    /\ supplied' = [g \in Groups |->
            LET rows == {r \in get_all_active_challenges(groups, settings) :
                            r.group_id = g}
            IN IF rows = {} THEN supplied[g]
               ELSE (CHOOSE r \in rows : TRUE).poll_time]
    /\ boot' = 1 - boot
    /\ UNCHANGED <<groups, settings, now, today, fired, delivery>>
    /\ SchedFrame /\ StoreFrame

Due(j) == j.next_run <= At(today, now)

Ran(j) == [kind |-> j.kind, group_id |-> j.group_id, day |-> today, at |-> now]

Rearm(store, j) ==
    (store \ {j}) \cup {[j EXCEPT !.next_run = NextFire(j.time, j.period, At(today, now))]}

\* The three add_job calls with one misfire_grace_time for all.
misfire_grace_time_all_300(kind) == 300

\* misfire_grace_time of the three add_job calls, in seconds.
misfire_grace_time(kind) == IF kind = "snapshot" THEN 120 ELSE 300

\* Seconds between the run time of a job and the moment the scheduler comes
\* to it: the event loop was busy, or the machine was asleep.
Lateness == {0, 120, 121, 300, 301}

\* The scheduler gives a run up as missed when it comes to it later than the
\* job's misfire_grace_time; the job is armed for its next run time either way.
Misfire(kind, late) == late > misfire_grace_time(kind)

\* The calendar days get_almaty_today() can give to a run of job j that
\* starts `late` seconds after its run time.  The snapshot's run time is
\* 23:59:00, a minute before midnight.  A poll time of the evening slot is
\* any minute up to 23:59, so that a late run of it starts before midnight
\* or after it; the other run times are hours away from midnight.
RunDays(j, late) ==
    IF j.kind = "snapshot" THEN (IF late >= 60 THEN {today + 1} ELSE {today})
    ELSE IF j.kind = "poll" /\ j.time = SnapshotSlot - 1 /\ late > 0
    THEN {today, today + 1}
    ELSE {today}

NoDelivery == [kind |-> "none", group_id |-> NULL, at |-> NULL, late |-> 0,
               day |-> NULL]

Delivery(j, late, day) ==
    [kind |-> j.kind, group_id |-> j.group_id, at |-> At(today, now),
     late |-> late, day |-> day]

\* The scheduler comes to the due job poll_{g}, `late` seconds after its run
\* time: post_daily_poll(g) unless the run is missed.
DeliverPoll(g, ok, late) ==
    \E j \in jobs : \E day \in RunDays(j, late) :
        /\ j.kind = "poll" /\ j.group_id = g /\ Due(j)
        /\ IF Misfire("poll", late)
           THEN UNCHANGED <<polls, tgPolls, fired>>
           ELSE /\ PostDailyPollOn(g, ok, day)
                /\ fired' = fired \cup {Ran(j)}
        /\ jobs' = Rearm(jobs, j)
        /\ delivery' = Delivery(j, late, day)
        /\ UNCHANGED <<groups, settings, now, today, supplied, boot, daily_results>>
        /\ SchedFrame
        /\ SnapRunsKept

\* The same for snapshot_{g}: snapshot_daily_results(g).
DeliverSnapshot(g, late) ==
    \E j \in jobs : \E day \in RunDays(j, late) :
        /\ j.kind = "snapshot" /\ j.group_id = g /\ Due(j)
        /\ IF Misfire("snapshot", late)
           THEN UNCHANGED <<daily_results, snapRuns, fired>>
           ELSE /\ daily_results' = SnapshotResult(daily_results, participants,
                                                   polls, votes, g, day)
                /\ snapRuns' = IF day # today THEN snapRuns
                               ELSE [snapRuns EXCEPT ![g] = IF @ < 2 THEN @ + 1 ELSE @]
                /\ fired' = fired \cup {Ran(j)}
        /\ jobs' = Rearm(jobs, j)
        /\ delivery' = Delivery(j, late, day)
        /\ UNCHANGED <<groups, settings, now, today, supplied, boot, polls, tgPolls>>
        /\ SchedFrame

\* The scheduler runs the due job poll_{g} at its run time.
FirePoll(g, ok) == DeliverPoll(g, ok, 0)

\* The scheduler runs the due job snapshot_{g} at its run time.
FireSnapshot(g) == DeliverSnapshot(g, 0)

\* Time passes to the next slot, once the jobs due in this one have run.
ClockTick(last_day) ==
    /\ \A j \in jobs : ~Due(j)
    /\ IF now < SlotsPerDay - 1
       THEN now' = now + 1 /\ today' = today /\ snapRuns' = snapRuns
       ELSE /\ today < last_day
            /\ now' = 0 /\ today' = today + 1
            /\ snapRuns' = [g \in Groups |-> 0]
    /\ UNCHANGED <<groups, settings, jobs, fired, supplied, boot, delivery, polls,
                   tgPolls, daily_results>>
    /\ SchedFrame

Tick == ClockTick(MaxDay)

\* ------------------------------------------- post_weekly_summary, by steps
\* The message Telegram stores for a sent summary; the count of summaries
\* sent so far, plus one, serves as message id.
send_summary(sent, g, week_start, preview) ==
    sent \cup {[message_id |-> Cardinality(sent) + 1, chat_id |-> g,
                week_start |-> week_start, preview |-> preview]}

\* post_weekly_summary has no return statement with a value: ret stays None.
IdleWeekly == [pc |-> "ready", group_id |-> NULL, preview |-> FALSE,
               week_start |-> NULL, week_end |-> NULL, rows |-> <<>>,
               i |-> 0, ret |-> NULL]

WeeklyInFlight(j) == j.pc \in {"checked", "inserting", "sending"}

\* Lines 158-174: the bounds of the week, and for a scheduled run the
\* idempotency check, which returns at once when a row of the week exists.
WeeklyStart(f, g, preview) ==
    /\ weeklyJob[f].pc = "ready"
    /\ IF f = 1 THEN TRUE ELSE weeklyJob[f - 1].pc # "ready"
    /\ LET cur == get_current_week_bounds(today)
           b == IF preview
                THEN [cur EXCEPT !.week_end = IF @ < today THEN @ ELSE today]
                ELSE get_prev_week_bounds(today)
           found == ~preview /\ check_weekly_result_exists(weekly_results, g,
                                                           b.week_start)
       IN weeklyJob' = [weeklyJob EXCEPT ![f] =
            [@ EXCEPT !.pc = IF found THEN "skipped" ELSE "checked",
                      !.group_id = g, !.preview = preview,
                      !.week_start = b.week_start, !.week_end = b.week_end]]

WeeklyCheck(f, g, preview) ==
    /\ WeeklyStart(f, g, preview)
    /\ UNCHANGED <<ctlVars, today, polls, pollJob, tgPolls, dayVars, weekly_results, summaries>>

\* The read of the leaderboard followed by the loop's insert for a preview
\* too.
WeeklyLeaderboard_preview_inserts(f) ==
    /\ weeklyJob[f].pc = "checked"
    /\ LET j == weeklyJob[f]
           rows == get_weekly_leaderboard(participants, daily_results,
                        j.group_id, j.week_start, j.week_end)
       IN weeklyJob' = [weeklyJob EXCEPT ![f] =
            [@ EXCEPT !.rows = rows,
                      !.pc = IF rows = <<>> THEN "empty" ELSE "inserting"]]
    /\ UNCHANGED <<ctlVars, today, polls, pollJob, tgPolls, dayVars, weekly_results, summaries>>

\* Lines 176-179: read the leaderboard; return when it is empty.  A preview
\* has no await in its loop and goes on to send.
WeeklyLeaderboard(f) ==
    /\ weeklyJob[f].pc = "checked"
    /\ LET j == weeklyJob[f]
           rows == get_weekly_leaderboard(participants, daily_results,
                        j.group_id, j.week_start, j.week_end)
       IN weeklyJob' = [weeklyJob EXCEPT ![f] =
            [@ EXCEPT !.rows = rows,
                      !.pc = IF rows = <<>> THEN "empty"
                             ELSE IF j.preview THEN "sending" ELSE "inserting"]]
    /\ UNCHANGED <<ctlVars, today, polls, pollJob, tgPolls, dayVars, weekly_results, summaries>>

\* The loop with the index of enumerate stored as the rank, not i + 1.
WeeklyInsert_rank_is_index(f) ==
    /\ weeklyJob[f].pc = "inserting"
    /\ LET j == weeklyJob[f]
           i == j.i
           p == j.rows[i + 1]
           total_days == (j.week_end - j.week_start) + 1
       IN /\ weekly_results' = insert_weekly_result(weekly_results, j.group_id,
                    p.id, j.week_start, p.yes_count, p.no_count, p.missed_count,
                    completion_rate(p.yes_count, total_days), i)
          /\ weeklyJob' = [weeklyJob EXCEPT ![f] =
                [@ EXCEPT !.i = i + 1,
                          !.pc = IF i + 1 = Len(j.rows) THEN "sending"
                                 ELSE "inserting"]]
    /\ UNCHANGED <<ctlVars, today, polls, pollJob, tgPolls, dayVars, summaries>>

\* Lines 188-203: one turn of the loop of a scheduled run, up to its await.
WeeklyInsert(f) ==
    /\ weeklyJob[f].pc = "inserting"
    /\ LET j == weeklyJob[f]
           i == j.i
           p == j.rows[i + 1]
           total_days == (j.week_end - j.week_start) + 1
       IN /\ weekly_results' = insert_weekly_result(weekly_results, j.group_id,
                    p.id, j.week_start, p.yes_count, p.no_count, p.missed_count,
                    completion_rate(p.yes_count, total_days), i + 1)
          /\ weeklyJob' = [weeklyJob EXCEPT ![f] =
                [@ EXCEPT !.i = i + 1,
                          !.pc = IF i + 1 = Len(j.rows) THEN "sending"
                                 ELSE "inserting"]]
    /\ UNCHANGED <<ctlVars, today, polls, pollJob, tgPolls, dayVars, summaries>>

\* Lines 205-219: bot.send_message outside any try: a TelegramAPIError leaves
\* the function.
WeeklySend(f) ==
    /\ weeklyJob[f].pc = "sending"
    /\ \/ /\ summaries' = send_summary(summaries, weeklyJob[f].group_id,
                                weeklyJob[f].week_start, weeklyJob[f].preview)
          /\ weeklyJob' = [weeklyJob EXCEPT ![f] = [@ EXCEPT !.pc = "done"]]
       \/ /\ summaries' = summaries
          /\ weeklyJob' = [weeklyJob EXCEPT ![f] = [@ EXCEPT !.pc = "raised"]]
    /\ UNCHANGED <<ctlVars, today, polls, pollJob, tgPolls, dayVars, weekly_results>>

\* schedule_group_jobs, lines 252-259: the weekly job runs on Mondays, and
\* with no max_instances given the scheduler starts no second instance of a
\* job while one is running.
RunningInstance(g) ==
    \E f \in WeeklyFirings :
        /\ WeeklyInFlight(weeklyJob[f])
        /\ weeklyJob[f].group_id = g /\ ~weeklyJob[f].preview

WeeklyFire(f, g) ==
    /\ weekday(today) = 0
    /\ ~RunningInstance(g)
    /\ WeeklyCheck(f, g, FALSE)

\* post_weekly_summary(preview=False) entered on a Monday whether or not
\* another execution for the group is between two of its awaits.
WeeklyFireOverlapping(f, g) ==
    /\ weekday(today) = 0
    /\ WeeklyCheck(f, g, FALSE)

\* The scheduler comes to the due job weekly_{g}, `late` seconds after its
\* run time: post_weekly_summary(g) starts unless the run is missed.
DeliverWeekly(f, g, late) ==
    \E j \in jobs :
        /\ j.kind = "weekly" /\ j.group_id = g /\ Due(j)
        /\ ~RunningInstance(g)
        /\ IF Misfire("weekly", late)
           THEN UNCHANGED <<weeklyJob, fired>>
           ELSE /\ WeeklyStart(f, g, FALSE)
                /\ fired' = fired \cup {Ran(j)}
        /\ jobs' = Rearm(jobs, j)
        /\ delivery' = Delivery(j, late, today)
        /\ UNCHANGED <<groups, settings, now, today, supplied, boot>>
        /\ UNCHANGED <<regVars, admVars, evVars, pollJob, polls, tgPolls, dayVars,
                       weekly_results, summaries>>

\* The scheduler runs the due job weekly_{g} at its run time.
FireWeekly(f, g) == DeliverWeekly(f, g, 0)

\* The clock of a week's end: a run of post_weekly_summary is over within
\* the slot it started in.
WeekendTick ==
    /\ \A f \in WeeklyFirings : ~WeeklyInFlight(weeklyJob[f])
    /\ ClockTick(Sunday + 1)

\* cmd_weekly_summary_now: the admin's preview of the current week.
CmdWeeklySummaryNow(f, g) == WeeklyCheck(f, g, TRUE)

\* The process stops and starts again: every running coroutine is gone, the
\* store stays.
Restart ==
    /\ \/ \E f \in PollFirings : InFlight(pollJob[f])
       \/ \E f \in WeeklyFirings : WeeklyInFlight(weeklyJob[f])
       \/ \E t \in RegTasks : regJob[t].pc # "idle"
    /\ pollJob' = [f \in PollFirings |->
            IF InFlight(pollJob[f]) THEN [pollJob[f] EXCEPT !.pc = "killed"]
            ELSE pollJob[f]]
    /\ weeklyJob' = [f \in WeeklyFirings |->
            IF WeeklyInFlight(weeklyJob[f])
            THEN [weeklyJob[f] EXCEPT !.pc = "killed"]
            ELSE weeklyJob[f]]
    /\ regJob' = [t \in RegTasks |-> IdleTask]
    /\ UNCHANGED <<regCall, schedVars, admVars, evVars, today, polls, tgPolls, dayVars,
                   weekly_results, summaries>>

\* ------------------------------------------------------------ specification
\* No handler in flight, no group registered, no job scheduled.
InitCtl ==
    /\ regJob = [t \in RegTasks |-> IdleTask]
    /\ regCall = NoCall
    /\ groups = {}
    /\ settings = {}
    /\ jobs = {}
    /\ now = 0
    /\ fired = {}
    /\ supplied = [g \in Groups |-> NULL]
    /\ boot = 0
    /\ delivery = NoDelivery
    /\ admJob = [t \in AdmTasks |-> IdleAdm]
    /\ timeArg = NoArg
    /\ answerEvent = NoEvent

\* The process starts on `day` with an empty database.
InitOn(day) ==
    /\ InitCtl
    /\ today = day
    /\ polls = {}
    /\ pollJob = [f \in PollFirings |-> IdleJob]
    /\ tgPolls = {}
    /\ votes = {}
    /\ participants = {}
    /\ daily_results = {}
    /\ lastAnswer = {}
    /\ snapRuns = [g \in Groups |-> 0]
    /\ weekly_results = {}
    /\ weeklyJob = [f \in WeeklyFirings |-> IdleWeekly]
    /\ summaries = {}

Init == InitOn(0)

PollNext ==
    \/ \E f \in PollFirings, g \in Groups : PollReserve(f, g)
    \/ \E f \in PollFirings : PollAnnounce(f)
    \/ \E f \in PollFirings : PollSend(f)
    \/ \E f \in PollFirings : PollStoreIds(f)
    \/ \E f \in PollFirings : PollPin(f)
    \/ Restart
    \/ Midnight

SpecPoll == Init /\ [][PollNext]_vars

\* Telegram poll ids an update may carry: those published, and one that is
\* not a poll of this bot.
Handles == 1..(Cardinality(tgPolls) + 1)

VoteNext ==
    \/ \E g \in DayGroups, ok \in BOOLEAN : RunDailyPoll(g, ok)
    \/ \E u \in Voters, h \in Handles, o \in OptionLists : OnPollAnswer(u, h, o)
    \/ Midnight

SpecVote == Init /\ [][VoteNext]_vars

SnapNext ==
    \/ \E g \in DayGroups, ok \in BOOLEAN : RunDailyPoll(g, ok)
    \/ \E u \in Voters, h \in Handles, o \in OptionLists : OnPollAnswer(u, h, o)
    \/ \E g \in DayGroups : Snapshot(g)
    \/ \E g \in DayGroups, u \in Users : CmdJoin(g, u)
    \/ \E g \in DayGroups, u \in Users : CmdLeave(g, u)
    \/ \E g \in DayGroups, a \in Aliases : CmdAdd(g, a)
    \/ \E g \in DayGroups, a \in Aliases : CmdRemove(g, a)
    \/ Midnight

SpecSnap == Init /\ [][SnapNext]_vars

\* The participant registry of one chat: messages, /join and /leave of its
\* members, /add and /remove of its admin, one handler in flight at a time.
RegNext ==
    \/ \E g \in DayGroups, u \in Voters, n \in EventNames,
          kind \in {"text", "join", "leave"} : RegMessage(1, g, u, n, kind)
    \/ RegJoinLookup(1)
    \/ RegJoinUpsert(1)
    \/ RegLeave(1)
    \/ \E g \in DayGroups, u \in Voters, n \in EventNames : RegAddReply(g, u, n)
    \/ \E g \in DayGroups, a \in Aliases : RegAddLookup(1, g, a)
    \/ RegAddEnrol(1)
    \/ \E g \in DayGroups, u \in Voters : RegRemoveReply(g, u)
    \/ \E g \in DayGroups, a \in Aliases : RegRemove(g, a)

SpecReg == Init /\ [][RegNext]_vars

\* Two handlers at once, each in a call of upsert_participant or of
\* resolve_pending_by_username, next to the admin's /add by username.
SqlNext ==
    \/ \E t \in RegTasks, g \in DayGroups, u \in Voters, n \in EventNames,
          op \in {"upsert", "resolve"} : SqlCall(t, g, u, n, op)
    \/ \E t \in RegTasks : UpsertSelectUser(t)
    \/ \E t \in RegTasks : UpsertUpdate(t)
    \/ \E t \in RegTasks : UpsertSelectName(t)
    \/ \E t \in RegTasks : UpsertBind(t)
    \/ \E t \in RegTasks : UpsertInsert(t)
    \/ \E t \in RegTasks : ResolveSelect(t)
    \/ \E t \in RegTasks : ResolveUpdate(t)
    \/ \E g \in DayGroups, a \in Aliases : CmdAdd(g, a)

SpecSql == Init /\ [][SqlNext]_vars

\* The scheduler of one process after another: the admin starts and stops the
\* challenge and moves the poll time, the bot is removed from the group and
\* added again, while the clock runs and jobs fire.
SchedNext ==
    \/ \E g \in DayGroups : GroupMessage(g)
    \/ \E g \in DayGroups : CmdChallengeStart(g)
    \/ \E g \in DayGroups : CmdChallengeStop(g)
    \/ \E g \in DayGroups, t \in PollTimes : CmdSetTime(g, t)
    \/ \E g \in DayGroups : BotAdded(g)
    \/ \E g \in DayGroups : BotRemoved(g)
    \/ Restore
    \/ \E g \in DayGroups, ok \in BOOLEAN : FirePoll(g, ok)
    \/ \E g \in DayGroups : FireSnapshot(g)
    \/ Tick

SpecSched == Init /\ [][SchedNext]_vars

\* Two groups side by side: each is started and stopped on its own while the
\* clock runs and the jobs of both fire.
StopNext ==
    \/ \E g \in Groups : CmdChallengeStart(g)
    \/ \E g \in Groups : CmdChallengeStop(g)
    \/ \E g \in Groups, t \in PollTimes : CmdSetTime(g, t)
    \/ \E g \in Groups : FirePoll(g, TRUE)
    \/ \E g \in Groups : FireSnapshot(g)
    \/ Tick

SpecStop == Init /\ [][StopNext]_vars

\* Two admins' /add by username at once, statement by statement, next to
\* the members' messages, whose middleware resolves a pending row.
EnrolNext ==
    \/ \E t \in RegTasks, g \in DayGroups, u \in Voters :
          AddPendingCall(t, g, Lower(Username(u)))
    \/ \E t \in RegTasks : AddPendingSelect(t)
    \/ \E t \in RegTasks : AddPendingActivate(t)
    \/ \E t \in RegTasks : AddPendingInsert(t)
    \/ \E t \in RegTasks, g \in DayGroups, u \in Voters :
          SqlCall(t, g, u, Username(u), "resolve")
    \/ \E t \in RegTasks : ResolveSelect(t)
    \/ \E t \in RegTasks : ResolveUpdate(t)
    \/ \E g \in DayGroups, u \in Voters : CmdLeave(g, u)

SpecEnrol == Init /\ [][EnrolNext]_vars

\* One chat over two days: the challenge is started, the poll time is moved,
\* a member joins, and the scheduler comes to the poll and snapshot jobs on
\* time or late.
LateNext ==
    \/ \E g \in DayGroups : CmdChallengeStart(g)
    \/ \E g \in DayGroups, t \in PollTimes : CmdSetTime(g, t)
    \/ \E g \in DayGroups, u \in Users : CmdJoin(g, u)
    \/ \E g \in DayGroups, ok \in BOOLEAN, late \in Lateness : DeliverPoll(g, ok, late)
    \/ \E g \in DayGroups, late \in Lateness : DeliverSnapshot(g, late)
    \/ Tick

SpecLate == Init /\ [][LateNext]_vars

\* post_daily_poll await by await, next to the poll_answer updates of the
\* members: Telegram delivers an answer as soon as the poll is published.
RaceNext ==
    \/ \E f \in PollFirings, g \in DayGroups : PollReserve(f, g)
    \/ \E f \in PollFirings : PollAnnounce(f)
    \/ \E f \in PollFirings : PollSend(f)
    \/ \E f \in PollFirings : PollStoreIds(f)
    \/ \E f \in PollFirings : PollPin(f)
    \/ \E u \in Voters, h \in Handles, o \in OptionLists : OnPollAnswerEvent(u, h, o)
    \/ Midnight

SpecRace == Init /\ [][RaceNext]_vars

\* One day in a chat whose admin enrols members by username or by reply to
\* a member without username: the poll is published, members answer it and
\* the snapshot runs.  Only on_poll_answer sees a member's username here.
PendingNext ==
    \/ \E g \in DayGroups, ok \in BOOLEAN : RunDailyPoll(g, ok)
    \/ \E g \in DayGroups, a \in Aliases : CmdAdd(g, a)
    \/ \E g \in DayGroups, a \in Aliases : CmdRemove(g, a)
    \/ \E g \in DayGroups, u \in Users : RegAddReply(g, u, "")
    \/ \E u \in Voters, h \in Handles, o \in OptionLists : OnPollAnswerEvent(u, h, o)
    \/ \E g \in DayGroups : Snapshot(g)

SpecPending == Init /\ [][PendingNext]_vars

\* The registry together with the daily ballot, its answers and its snapshot:
\* a participant who leaves and comes back while results are being recorded.
\* The admin commands of one group as concurrent tasks.
AdmNext ==
    \/ \E t \in AdmTasks, g \in DayGroups,
          op \in {"challenge_start", "challenge_stop"} : AdmMessage(t, g, op, NULL)
    \/ \E t \in AdmTasks, g \in DayGroups, p \in PollTimes :
          AdmMessage(t, g, "set_time", p)
    \/ \E t \in AdmTasks : AdmGetSettings(t)
    \/ \E t \in AdmTasks : AdmWrite(t)

SpecAdm == Init /\ [][AdmNext]_vars

\* One chat from a Sunday to the Monday after it: the challenge is started,
\* a member joins, and the scheduler comes to each job on time or late.
GraceNext ==
    \/ \E g \in DayGroups : CmdChallengeStart(g)
    \/ \E g \in DayGroups, u \in Users : CmdJoin(g, u)
    \/ \E g \in DayGroups, ok \in BOOLEAN, late \in Lateness : DeliverPoll(g, ok, late)
    \/ \E g \in DayGroups, late \in Lateness : DeliverSnapshot(g, late)
    \/ \E f \in WeeklyFirings, g \in DayGroups, late \in Lateness :
          DeliverWeekly(f, g, late)
    \/ \E f \in WeeklyFirings : WeeklyLeaderboard(f)
    \/ \E f \in WeeklyFirings : WeeklyInsert(f)
    \/ \E f \in WeeklyFirings : WeeklySend(f)
    \/ WeekendTick

SpecGrace == InitOn(Sunday) /\ [][GraceNext]_vars

\* The admin of one chat starts and stops the challenge and sends /set_time
\* with every argument of Args.
TimeNext ==
    \/ \E g \in DayGroups : CmdChallengeStart(g)
    \/ \E g \in DayGroups : CmdChallengeStop(g)
    \/ \E g \in DayGroups, raw \in Args : CmdSetTimeArg(g, raw)

SpecTime == Init /\ [][TimeNext]_vars

\* One chat with its poll answers noted: polls are published or fail, the
\* admin enrols by username, and answers arrive for polls of this bot and for
\* polls of others.
AnswerNext ==
    \/ \E g \in DayGroups, ok \in BOOLEAN : RunDailyPoll(g, ok)
    \/ \E u \in Voters, h \in Handles, o \in OptionLists : OnPollAnswerEvent(u, h, o)
    \/ \E g \in DayGroups, a \in Aliases : CmdAdd(g, a)
    \/ Midnight

SpecAnswer == Init /\ [][AnswerNext]_vars

\* Two chats from a Sunday to the Monday after it, every job run on time:
\* the publish of a poll and the send of a summary succeed or fail.
FailNext ==
    \/ \E g \in Groups : CmdChallengeStart(g)
    \/ \E g \in Groups, u \in Users : CmdJoin(g, u)
    \/ \E g \in Groups, ok \in BOOLEAN : FirePoll(g, ok)
    \/ \E g \in Groups : FireSnapshot(g)
    \/ \E f \in WeeklyFirings, g \in Groups : FireWeekly(f, g)
    \/ \E f \in WeeklyFirings : WeeklyLeaderboard(f)
    \/ \E f \in WeeklyFirings : WeeklyInsert(f)
    \/ \E f \in WeeklyFirings : WeeklySend(f)
    \/ WeekendTick

SpecFail == InitOn(Sunday) /\ [][FailNext]_vars

HistNext ==
    \/ \E g \in DayGroups, u \in Users, n \in EventNames,
          kind \in {"text", "join", "leave"} : RegMessage(1, g, u, n, kind)
    \/ RegJoinLookup(1)
    \/ RegJoinUpsert(1)
    \/ RegLeave(1)
    \/ \E g \in DayGroups, u \in Users, n \in EventNames : RegAddReply(g, u, n)
    \/ \E g \in DayGroups, a \in Aliases : RegAddLookup(1, g, a)
    \/ RegAddEnrol(1)
    \/ \E g \in DayGroups, u \in Users : RegRemoveReply(g, u)
    \/ \E g \in DayGroups, a \in Aliases : RegRemove(g, a)
    \/ \E g \in DayGroups : RunDailyPoll(g, TRUE)
    \/ \E u \in Users, h \in Handles, o \in OptionLists : OnPollAnswer(u, h, o)
    \/ \E g \in DayGroups : Snapshot(g)

SpecHist == Init /\ [][HistNext]_vars

\* The store a Sunday leaves behind, built by the handlers' own operators:
\* the users of `joined` sent /join, the day's poll was published, the users
\* of `answered` answered it (user u with opt[u]) and the snapshot ran.
RECURSIVE JoinAll(_, _, _)
JoinAll(rows, g, us) ==
    IF us = {} THEN rows
    ELSE LET u == CHOOSE x \in us : \A y \in us : x <= y
         IN JoinAll(upsert_participant(rows, g, u, Username(u), FullName(u)),
                    g, us \ {u})

RECURSIVE AnswerAll(_, _, _, _)
AnswerAll(rows, poll_id, us, opt) ==
    IF us = {} THEN rows
    ELSE LET u == CHOOSE x \in us : \A y \in us : x <= y
         IN AnswerAll(upsert_vote(rows, poll_id, u, decode_option(opt[u])),
                      poll_id, us \ {u}, opt)

RECURSIVE NoteAll(_, _, _, _)
NoteAll(log, h, us, opt) ==
    IF us = {} THEN log
    ELSE LET u == CHOOSE x \in us : \A y \in us : x <= y
         IN NoteAll(NoteAnswer(log, h, u, opt[u]), h, us \ {u}, opt)

\* Monday of the second week, 00:00, in one chat.
InitMonday ==
    \E joined \in SUBSET Voters, answered \in SUBSET Voters,
       opt \in [Voters -> {<<0>>, <<1>>}] :
        \E g \in DayGroups :
            LET sent == send_poll({}, g, Sunday)
                slot == try_create_poll_slot({}, g, Sunday)
                prows == JoinAll({}, g, joined)
                pollrows == update_poll_telegram_ids(slot.polls, g, Sunday,
                                sent.poll_msg, sent.poll_msg)
                vrows == AnswerAll({}, slot.ret, answered, opt)
            IN /\ today = Sunday + 1
               /\ polls = pollrows
               /\ pollJob = [f \in PollFirings |-> IdleJob]
               /\ tgPolls = sent.tgPolls
               /\ votes = vrows
               /\ participants = prows
               /\ daily_results = SnapshotResult({}, prows, pollrows, vrows,
                                                 g, Sunday)
               /\ lastAnswer = NoteAll({}, sent.poll_msg, answered, opt)
               /\ snapRuns = [x \in Groups |-> 0]
               /\ weekly_results = {}
               /\ weeklyJob = [f \in WeeklyFirings |-> IdleWeekly]
               /\ summaries = {}
               /\ InitCtl

\* ------------------------------------------------ a week's store, for reading
\* The store of a Wednesday evening, built by the handlers' own operators.
\* The users of BoardUsers joined chat 1 before Monday (user 1 joined chat 2
\* as well); on each day Monday to Wednesday the poll of chat 1 was published
\* and the snapshot ran.  A user's week is a profile: so many days away (he
\* had left, and joined again later), so many missed, so many answered no,
\* so many answered yes, in this order.
BoardUsers == 1..MaxBoardUsers

BoardStart == WeekLength

BoardToday == BoardStart + BoardDays - 1

Profiles ==
    {q \in [{"yes", "no", "missed"} -> 0..BoardDays] :
        q["yes"] + q["no"] + q["missed"] <= BoardDays}

\* The status of the i-th day of the week in profile q.
StatusOn(q, i) ==
    LET away == BoardDays - (q["yes"] + q["no"] + q["missed"])
    IN IF i <= away THEN "none"
       ELSE IF i <= away + q["missed"] THEN "missed"
       ELSE IF i <= away + q["missed"] + q["no"] THEN "no"
       ELSE "yes"

EmptyStore == [polls |-> {}, tgPolls |-> {}, votes |-> {}, daily_results |-> {},
               lastAnswer |-> {}]

\* Day d in chat 1: post_daily_poll, the answers of the day, and the
\* snapshot over the participants active that evening.
BoardDay(st, prows, d, status) ==
    LET sent == send_poll(st.tgPolls, 1, d)
        slot == try_create_poll_slot(st.polls, 1, d)
        pollrows == update_poll_telegram_ids(slot.polls, 1, d, sent.poll_msg,
                                             sent.poll_msg)
        voters == {u \in BoardUsers : status[u] \in {"yes", "no"}}
        opt == [u \in BoardUsers |-> IF status[u] = "yes" THEN <<0>> ELSE <<1>>]
        vrows == AnswerAll(st.votes, slot.ret, voters, opt)
        present == {IF r.group_id = 1 /\ r.user_id \in BoardUsers
                        /\ status[r.user_id] = "none"
                    THEN [r EXCEPT !.active = 0] ELSE r : r \in prows}
    IN [polls |-> pollrows, tgPolls |-> sent.tgPolls, votes |-> vrows,
        daily_results |-> SnapshotResult(st.daily_results, present, pollrows,
                                         vrows, 1, d),
        lastAnswer |-> NoteAll(st.lastAnswer, sent.poll_msg, voters, opt)]

RECURSIVE BoardWeek(_, _, _, _)
BoardWeek(st, prows, prof, i) ==
    IF i > BoardDays THEN st
    ELSE BoardWeek(BoardDay(st, prows, BoardStart + i - 1,
                            [u \in BoardUsers |-> StatusOn(prof[u], i)]),
                   prows, prof, i + 1)

\* `old`: the challenge ran on the Sunday before as well, and all answered yes.
\* `left`: a user who left chat 1 on Wednesday night, or NULL.
InitBoard ==
    \E prof \in [BoardUsers -> Profiles], old \in BOOLEAN,
       left \in BoardUsers \cup {NULL} :
        \E prows \in {JoinAll(JoinAll({}, 1, BoardUsers), 2, {1})} :
        \E sunday \in {IF old
                      THEN BoardDay(EmptyStore, prows, BoardStart - 1,
                                    [u \in BoardUsers |-> "yes"])
                      ELSE EmptyStore} :
        \E st \in {BoardWeek(sunday, prows, prof, 1)} :
           /\ today = BoardToday
           /\ polls = st.polls
           /\ pollJob = [f \in PollFirings |-> IdleJob]
           /\ tgPolls = st.tgPolls
           /\ votes = st.votes
           /\ participants =
                IF left = NULL THEN prows
                ELSE deactivate_participant_by_user_id(prows, 1, left)
           /\ daily_results = SnapshotResult(st.daily_results, prows, st.polls,
                                             st.votes, 2, BoardStart)
           /\ lastAnswer = st.lastAnswer
           /\ snapRuns = [x \in Groups |-> 0]
           /\ weekly_results = {}
           /\ weeklyJob = [f \in WeeklyFirings |-> IdleWeekly]
           /\ summaries = {}
           /\ InitCtl

\* The admin of either chat asks for the preview of the week.
BoardNext ==
    \/ \E g \in Groups : CmdWeeklySummaryNow(1, g)
    \/ WeeklyLeaderboard(1)
    \/ WeeklySend(1)

SpecBoard == InitBoard /\ [][BoardNext]_vars

\* The Monday in that chat with its admin asking for previews next to the
\* scheduler's weekly job.
PreviewNext ==
    \/ \E f \in WeeklyFirings, g \in DayGroups : CmdWeeklySummaryNow(f, g)
    \/ \E f \in WeeklyFirings, g \in DayGroups : WeeklyFire(f, g)
    \/ \E f \in WeeklyFirings : WeeklyLeaderboard(f)
    \/ \E f \in WeeklyFirings : WeeklyInsert(f)
    \/ \E f \in WeeklyFirings : WeeklySend(f)

SpecPreview == InitMonday /\ [][PreviewNext]_vars

\* The Monday in that chat: enrolment, the day's snapshot and the
\* scheduler's weekly job.
WeekCommon ==
    \/ \E g \in DayGroups : Snapshot(g)
    \/ \E g \in DayGroups, u \in Voters : CmdJoin(g, u)
    \/ \E g \in DayGroups, u \in Voters : CmdLeave(g, u)
    \/ \E f \in WeeklyFirings : WeeklyLeaderboard(f)
    \/ \E f \in WeeklyFirings : WeeklyInsert(f)
    \/ \E f \in WeeklyFirings : WeeklySend(f)
    \/ Restart

WeekNext ==
    \/ \E f \in WeeklyFirings, g \in DayGroups : WeeklyFire(f, g)
    \/ WeekCommon

SpecWeek == InitMonday /\ [][WeekNext]_vars

OverlapNext ==
    \/ \E f \in WeeklyFirings, g \in DayGroups : WeeklyFireOverlapping(f, g)
    \/ WeekCommon

SpecOverlap == InitMonday /\ [][OverlapNext]_vars

\* ------------------------------------------------------------------ claims
Called(f) == pollJob[f].pc # "ready"

SameSlot(f1, f2) ==
    /\ pollJob[f1].group_id = pollJob[f2].group_id
    /\ pollJob[f1].today = pollJob[f2].today

\* Deliveries are numbered in the order in which they call try_create_poll_slot.
FirstCall(f) ==
    /\ Called(f)
    /\ ~\E f0 \in PollFirings : f0 < f /\ Called(f0) /\ SameSlot(f0, f)

SlotRows(g, d) == {r \in polls : r.group_id = g /\ r.poll_date = d}

C2_Invariant ==
    /\ \A f1, f2 \in PollFirings :
        (f1 # f2 /\ Called(f1) /\ Called(f2) /\ SameSlot(f1, f2))
            => (pollJob[f1].poll_db_id = NULL \/ pollJob[f2].poll_db_id = NULL)
    /\ \A f \in PollFirings :
        (Called(f) /\ pollJob[f].poll_db_id = NULL)
            => (pollJob[f].pc = "skipped" /\ pollJob[f].calls = 0)

C2_Step ==
    \A f \in PollFirings :
        /\ (pollJob[f].pc = "ready" /\ pollJob'[f].pc = "skipped") => polls' = polls
        /\ pollJob[f].pc = "skipped" => pollJob'[f] = pollJob[f]

C2_AtMostOneReservation == []C2_Invariant /\ [][C2_Step]_vars

\* An execution was skipped while the one holding the slot was still running.
C2_Witness ==
    \E f1, f2 \in PollFirings :
        /\ InFlight(pollJob[f1]) /\ pollJob[f2].pc = "skipped" /\ SameSlot(f1, f2)

PublishedFor(g, d) == {t \in tgPolls : t.chat_id = g /\ t.day = d}

\* C3: a (group, day) ballot is published at most once, and once an execution
\* failed at the transport after claiming the slot, the row stays reserved
\* with null handles and nothing is ever published for that day.
C3_FailedSlotStaysReserved ==
    /\ \A g \in Groups, d \in Days : Cardinality(PublishedFor(g, d)) <= 1
    /\ \A f \in PollFirings :
        pollJob[f].pc = "failed" =>
            /\ PublishedFor(pollJob[f].group_id, pollJob[f].today) = {}
            /\ SlotRows(pollJob[f].group_id, pollJob[f].today) # {}
            /\ \A r \in SlotRows(pollJob[f].group_id, pollJob[f].today) :
                    r.tg_poll_id = NULL /\ r.message_id = NULL

\* After a transport failure a later firing for the same day came and went.
C3_Witness ==
    \E f1, f2 \in PollFirings :
        /\ f1 < f2 /\ pollJob[f1].pc = "failed" /\ pollJob[f2].pc = "skipped"
        /\ SameSlot(f1, f2)

\* The option a response event asks recordResponse to store.
RequestedOption(option_ids) == IF option_ids = <<>> THEN NULL ELSE option_ids[1]

\* C4: whatever sequence of response events has been recorded for a (ballot,
\* identity) pair, the pair has exactly one Response row, holding the option
\* of the last event (NULL after a retraction); no other Response row exists.
C4_OneResponseLastWins ==
    /\ \A a \in lastAnswer :
         \A b \in polls :
            b.tg_poll_id = a.tg_poll_id =>
                LET rows == VoteRows(votes, b.id, a.user_id)
                IN /\ Cardinality(rows) = 1
                   /\ \A v \in rows : v.option_idx = RequestedOption(a.option_ids)
    /\ \A v \in votes :
         \E a \in lastAnswer, b \in polls :
            b.id = v.poll_id /\ b.tg_poll_id = a.tg_poll_id /\ a.user_id = v.user_id

\* A pair went from a choice into a retraction and out again to a choice.
C4_Witness ==
    \E a \in lastAnswer, v \in votes, b \in polls :
        /\ a.retracted /\ a.option_ids # <<>>
        /\ b.tg_poll_id = a.tg_poll_id /\ v.poll_id = b.id /\ v.user_id = a.user_id
        /\ v.option_idx = a.option_ids[1]

DailyOf(rows, g) == {r \in rows : r.group_id = g}

C5_OneRowPerKey ==
    \A r1, r2 \in daily_results :
        (/\ r1.group_id = r2.group_id /\ r1.participant_id = r2.participant_id
         /\ r1.result_date = r2.result_date) => r1 = r2

C5_Rerun ==
    \A g \in Groups :
        (snapRuns[g] >= 1 /\ snapRuns'[g] >= 1)
            => DailyOf(daily_results', g) = DailyOf(daily_results, g)

\* C5: a snapshot of (group, day) that runs after another one, with no
\* response, enrolment, ballot or day change in between, leaves the group's
\* Daily Result rows as they were; there is never more than one row per
\* (group, participant, day).
C5_SnapshotIdempotent == []C5_OneRowPerKey /\ [][C5_Rerun]_vars

\* The snapshot ran twice in a row and the day has a yes on record.
C5_Witness ==
    \E g \in Groups, r \in daily_results :
        /\ snapRuns[g] = 2
        /\ r.group_id = g /\ r.result_date = today /\ r.status = "yes"

\* The day's published ballots of a group, and an identity's responses to them.
PublishedBallots(g, d) ==
    {b \in polls : b.group_id = g /\ b.poll_date = d /\ b.tg_poll_id # NULL}

ResponsesTo(ballots, u) ==
    {v \in votes : v.user_id = u /\ \E b \in ballots : v.poll_id = b.id}

\* The status the snapshot is to write for participant p, in the claim's words.
ExpectedStatus(p, g, d) ==
    LET resp == ResponsesTo(PublishedBallots(g, d), p.user_id)
    IN IF \/ p.user_id = NULL
          \/ PublishedBallots(g, d) = {}
          \/ resp = {}
          \/ \A v \in resp : v.option_idx = NULL
       THEN "missed"
       ELSE IF \A v \in resp : v.option_idx = 0 THEN "yes" ELSE "no"

\* C6: right after a snapshot of group g (nothing has changed since), every
\* active participant of g has one Daily Result row for today, with status
\* missed when the identity is unknown, the day has no published ballot, no
\* response exists or the response is a retraction, and otherwise yes for
\* option 0 and no for the other option.
C6_SnapshotStatus ==
    \A g \in Groups :
        snapRuns[g] >= 1 =>
            \A p \in participants :
                (p.group_id = g /\ p.active = 1) =>
                    LET rows == DailyRows(daily_results, g, p.id, today)
                    IN /\ Cardinality(rows) = 1
                       /\ \A r \in rows : r.status = ExpectedStatus(p, g, today)

\* A snapshot has recorded a no for one participant of the group.
C6_Witness ==
    \E g \in Groups, p \in participants, r \in daily_results :
        /\ snapRuns[g] >= 1 /\ p.group_id = g /\ p.active = 1
        /\ r.group_id = g /\ r.participant_id = p.id /\ r.result_date = today
        /\ r.status = "no"

\* C7: when the last response event of an identity on the day's published
\* ballot is a retraction, the snapshot that follows records missed for the
\* active participant bound to that identity.
C7_RetractionIsMissed ==
    \A g \in Groups :
        snapRuns[g] >= 1 =>
            \A a \in lastAnswer, b \in PublishedBallots(g, today), p \in participants :
                (/\ a.option_ids = <<>> /\ a.tg_poll_id = b.tg_poll_id
                 /\ p.group_id = g /\ p.active = 1 /\ p.user_id = a.user_id)
                    => /\ DailyRows(daily_results, g, p.id, today) # {}
                       /\ \A r \in DailyRows(daily_results, g, p.id, today) :
                            r.status = "missed"

\* A participant chose an option, retracted, and the snapshot ran after that.
C7_Witness ==
    \E g \in Groups, a \in lastAnswer, b \in polls, p \in participants :
        /\ snapRuns[g] >= 1 /\ b \in PublishedBallots(g, today)
        /\ a.option_ids = <<>> /\ a.retracted /\ a.tg_poll_id = b.tg_poll_id
        /\ p.group_id = g /\ p.active = 1 /\ p.user_id = a.user_id
        /\ \E r \in DailyRows(daily_results, g, p.id, today) : r.status = "missed"

\* A scheduled (non-preview) execution of post_weekly_summary that has begun.
Scheduled(f) == weeklyJob[f].pc # "ready" /\ ~weeklyJob[f].preview

\* This step is the entry of a scheduled execution f whose (group, week)
\* already has a Weekly Result row.
EntersFinalized(f) ==
    /\ weeklyJob[f].pc = "ready" /\ weeklyJob'[f].pc # "ready"
    /\ ~weeklyJob'[f].preview
    /\ WeeklyRows(weekly_results, weeklyJob'[f].group_id,
                  weeklyJob'[f].week_start) # {}

\* The rows an execution has stored carry the ranks it assigned.
C8_RanksOfFirstCall ==
    \A f \in WeeklyFirings :
        Scheduled(f) =>
            \A k \in 1..weeklyJob[f].i :
                \E r \in weekly_results :
                    /\ r.group_id = weeklyJob[f].group_id
                    /\ r.participant_id = weeklyJob[f].rows[k].id
                    /\ r.week_start = weeklyJob[f].week_start
                    /\ r.rank_pos = k

C8_SecondCallStep ==
    \A f \in WeeklyFirings :
        EntersFinalized(f) =>
            /\ weekly_results' = weekly_results
            /\ weeklyJob'[f].pc = "skipped" /\ weeklyJob'[f].ret = NULL

\* C8 (as amended): a second scheduled post_weekly_summary for a (group,
\* week) that already has Weekly Result rows changes zero Weekly Result rows
\* and returns at its check with nothing (None) as its value; the stored rows
\* keep the rank assignments of the call that stored them.
C8_SecondCallChangesNothing == []C8_RanksOfFirstCall /\ [][C8_SecondCallStep]_vars

\* A first call ranked two participants and published; a second call returned
\* at the check.
C8_Witness ==
    \E f1, f2 \in WeeklyFirings :
        /\ weeklyJob[f1].pc = "done" /\ ~weeklyJob[f1].preview
        /\ weeklyJob[f1].i = 2
        /\ weeklyJob[f2].pc = "skipped"
        /\ weeklyJob[f2].group_id = weeklyJob[f1].group_id
        /\ weeklyJob[f2].week_start = weeklyJob[f1].week_start

\* C8 as stated: the second call returns the previously stored rows.
C8_ReturnsStoredRows ==
    \A f \in WeeklyFirings :
        weeklyJob[f].pc = "skipped" =>
            /\ weeklyJob[f].ret # NULL
            /\ weeklyJob[f].ret = WeeklyRows(weekly_results, weeklyJob[f].group_id,
                                             weeklyJob[f].week_start)

ScheduledSummaries(g, week_start) ==
    {m \in summaries : m.chat_id = g /\ m.week_start = week_start /\ ~m.preview}

C9_PublishedOnce ==
    \A m \in summaries :
        Cardinality(ScheduledSummaries(m.chat_id, m.week_start)) <= 1

C9_FoundRowReturns ==
    \A f \in WeeklyFirings :
        /\ EntersFinalized(f) =>
            /\ weeklyJob'[f].pc = "skipped"
            /\ weeklyJob'[f].rows = <<>> /\ weeklyJob'[f].i = 0
            /\ weekly_results' = weekly_results /\ summaries' = summaries
        /\ weeklyJob[f].pc = "skipped" => weeklyJob'[f] = weeklyJob[f]

\* C9: over any sequence of scheduled post_weekly_summary firings, at most
\* one summary is published per (group, week); a firing that finds a Weekly
\* Result row of its (group, week) returns at once: it reads no leaderboard,
\* writes no row, sends no message and takes no further step.
C9_SummaryAtMostOnce == []C9_PublishedOnce /\ [][C9_FoundRowReturns]_vars

\* The week's summary is out and a later firing has found the rows.
C9_Witness ==
    \E f \in WeeklyFirings :
        /\ weeklyJob[f].pc = "skipped"
        /\ ScheduledSummaries(weeklyJob[f].group_id, weeklyJob[f].week_start) # {}

SameWeeklyKey(r1, r2) ==
    /\ r1.group_id = r2.group_id /\ r1.participant_id = r2.participant_id
    /\ r1.week_start = r2.week_start

SameWeeklyResult(r1, r2) ==
    /\ r1.total_yes = r2.total_yes /\ r1.total_no = r2.total_no
    /\ r1.total_missed = r2.total_missed
    /\ r1.completion_rate = r2.completion_rate /\ r1.rank_pos = r2.rank_pos

C10_Step ==
    \A r \in weekly_results :
        /\ \E r2 \in weekly_results' : SameWeeklyKey(r, r2)
        /\ \A r2 \in weekly_results' : SameWeeklyKey(r, r2) => SameWeeklyResult(r, r2)

\* C10: a Weekly Result row, once stored, keeps its counts, completion rate
\* and rank in every later state, whatever snapshot, enrolment, deactivation
\* or finalize execution follows, overlapping ones included.
C10_WeeklyRowNeverChanges == [][C10_Step]_vars

\* An execution has passed, in its loop, a participant whose stored row has
\* another rank than the one this execution computed: its insert was ignored.
C10_Witness ==
    \E f \in WeeklyFirings :
        /\ Scheduled(f)
        /\ \E k \in 1..weeklyJob[f].i : \E r \in weekly_results :
              /\ r.group_id = weeklyJob[f].group_id
              /\ r.participant_id = weeklyJob[f].rows[k].id
              /\ r.week_start = weeklyJob[f].week_start
              /\ r.rank_pos # k


\* ---------------------------------------------------------------- registry
\* The step is a call of the named write method.
Calls(op) == regCall'.seq # regCall.seq /\ regCall'.op = op

RowOf(rows, id) == {r \in rows : r.id = id}

GroupRows(rows, g) == {r \in rows : r.group_id = g}

\* The enrolled (active) pending rows of group g whose username matches n.
EnrolledPending(rows, g, n) ==
    {r \in PendingByUsername(rows, g, n) : r.active = 1}

\* C11: when a participant is enrolled by username only and a message of
\* user u carrying that username (in any case) arrives, then after the message
\* the same row is active, not pending and bound to u, and the group has as
\* many rows as before; a row bound to a user stays bound to that user.
C11_ResolveStep ==
    Calls("resolve_pending_by_username") =>
        \A p \in EnrolledPending(participants, regCall'.group_id, regCall'.username) :
            /\ \E r \in RowOf(participants', p.id) :
                    r.active = 1 /\ r.pending = 0 /\ r.user_id = regCall'.user_id
            /\ Cardinality(GroupRows(participants', p.group_id))
                    = Cardinality(GroupRows(participants, p.group_id))

C11_KeepsUser ==
    \A p \in participants : p.user_id # NULL =>
        \E r \in RowOf(participants', p.id) : r.user_id = p.user_id

C11_PendingResolvedByActivity == [][C11_ResolveStep /\ C11_KeepsUser]_vars

\* C12: every call of upsert_participant for a (group, user) leaves exactly
\* one row of that user in the group, active and not pending, and returns
\* that row's id: the id of the row the user already had, when there was one.
C12_UpsertStep ==
    Calls("upsert_participant") =>
        LET c == regCall'
            before == RowsByUserId(participants, c.group_id, c.user_id)
            after == RowsByUserId(participants', c.group_id, c.user_id)
        IN /\ Cardinality(after) = 1
           /\ \A r \in after : r.active = 1 /\ r.pending = 0 /\ r.id = c.id
           /\ \A r \in before : r.id = c.id

C12_EnrolByIdentityIdempotent == [][C12_UpsertStep]_vars

\* upsert_participant was called for a user who already had a row, and
\* returned it.
C12_Witness ==
    /\ regCall.op = "upsert_participant"
    /\ regCall.held # "none"
    /\ \E r \in RowsByUserId(participants, regCall.group_id, regCall.user_id) :
            r.id = regCall.id /\ r.active = 1


\* The pending rows of group g whose username matches n in any case.
PendingMatches(rows, g, n) ==
    IF n = "" THEN {}
    ELSE {r \in RowsByUsername(rows, g, n) : r.user_id = NULL /\ r.pending = 1}

\* C13: upsert_participant(group, user, username, display name) takes the
\* first of three branches that applies: the user has a row, which is
\* reactivated with its username refreshed and pending cleared; else a pending
\* row matches the username, and the user is bound to it with pending cleared
\* and no new row; else exactly one new active, non-pending row is created.
C13_UpsertBranch ==
    Calls("upsert_participant") =>
        LET c == regCall'
            g == c.group_id
            existing == RowsByUserId(participants, g, c.user_id)
            pending == PendingMatches(participants, g, c.username)
            grown == Cardinality(GroupRows(participants', g))
                        - Cardinality(GroupRows(participants, g))
        IN IF existing # {}
           THEN /\ grown = 0
                /\ \A e \in existing : \E r \in RowOf(participants', e.id) :
                        /\ r.user_id = c.user_id /\ r.username = c.username
                        /\ r.active = 1 /\ r.pending = 0
           ELSE IF pending # {}
           THEN /\ grown = 0
                /\ \E e \in pending : \E r \in RowOf(participants', e.id) :
                        r.user_id = c.user_id /\ r.active = 1 /\ r.pending = 0
           ELSE /\ grown = 1
                /\ \E r \in participants' \ participants :
                        /\ r.group_id = g /\ r.user_id = c.user_id
                        /\ r.active = 1 /\ r.pending = 0

C13_EnrolByIdentityBranches == [][C13_UpsertBranch]_vars


\* C14: add_pending_participant(group, username): when a row of the group,
\* pending or resolved, has that username in any case, that row is set active
\* and its id returned, no row is created and its user and pending flag stay
\* as they were; otherwise exactly one row is created, with no user, active
\* and pending.
C14_AddPendingStep ==
    Calls("add_pending_participant") =>
        LET c == regCall'
            g == c.group_id
            matches == RowsByUsername(participants, g, c.username)
        IN IF matches # {}
           THEN /\ Cardinality(participants') = Cardinality(participants)
                /\ \E e \in matches : \E r \in RowOf(participants', e.id) :
                        /\ c.id = e.id
                        /\ r = [e EXCEPT !.active = 1]
           ELSE /\ Cardinality(participants') = Cardinality(participants) + 1
                /\ \E r \in participants' \ participants :
                        /\ r.id = c.id /\ r.group_id = g
                        /\ Lower(r.username) = Lower(c.username)
                        /\ r.user_id = NULL /\ r.active = 1 /\ r.pending = 1

C14_EnrolByAlias == [][C14_AddPendingStep]_vars

\* add_pending_participant found the row of a known user: it returned that
\* row and created nothing.
C14_Witness ==
    /\ regCall.op = "add_pending_participant"
    /\ Cardinality(GroupRows(participants, regCall.group_id)) = regCall.count
    /\ \E r \in RowOf(participants, regCall.id) :
            r.user_id # NULL /\ r.pending = 0 /\ r.active = 1


\* C15: deactivating by user or by username returns false and changes no
\* row when the group has no active row matching; otherwise it returns true
\* and sets the active flag of the matching row to 0, nothing else.
C15_DeactivateStep ==
    \/ Calls("deactivate_participant_by_user_id")
    \/ Calls("deactivate_participant_by_username")
    =>
        LET c == regCall'
            matches == IF c.op = "deactivate_participant_by_user_id"
                       THEN RowsByUserId(participants, c.group_id, c.user_id)
                       ELSE RowsByUsername(participants, c.group_id, c.username)
            activeMatches == {r \in matches : r.active = 1}
        IN IF activeMatches = {}
           THEN c.ok = "false" /\ participants' = participants
           ELSE /\ c.ok = "true"
                /\ \E e \in activeMatches :
                        participants' = UpdateRow(participants, e.id,
                                                  [e EXCEPT !.active = 0])

C15_DeactivateSoft == [][C15_DeactivateStep]_vars


\* C18: in every state, a row has a user exactly when it is not pending: no
\* row with a known user_id has pending=1, and every row without user_id has
\* pending=1.
C18_PendingIffNoUser ==
    \A r \in participants :
        /\ r.user_id # NULL => r.pending = 0
        /\ r.user_id = NULL => r.pending = 1

\* A pending row has just been resolved by a message of its user.
C18_Witness ==
    /\ regCall.op = "resolve_pending_by_username"
    /\ regCall.ok = "true"
    /\ \E r \in RowsByUserId(participants, regCall.group_id, regCall.user_id) :
            r.pending = 0 /\ Lower(r.username) = Lower(regCall.username)


\* The daily results recorded for the participant row pid.
ResultsOf(rows, pid) == {d \in rows : d.participant_id = pid}

ParticipantIds(rows) == {r.id : r \in rows}

\* C16: no step deletes a participant row (the ids of a state contain the ids
\* of every earlier state), and the daily results of a participant who has
\* left or been removed stay present and unchanged.
C16_Step ==
    /\ ParticipantIds(participants) \subseteq ParticipantIds(participants')
    /\ \A p \in participants :
        (p.active = 0 \/ \E r \in RowOf(participants', p.id) : r.active = 0)
            => ResultsOf(daily_results, p.id) = ResultsOf(daily_results', p.id)

C16_NeverDeleted == [][C16_Step]_vars

\* The snapshot has run over a group one of whose participants, with results
\* on record, had left.
C16_Witness ==
    \E p \in participants :
        /\ p.active = 0
        /\ snapRuns[p.group_id] >= 1
        /\ ResultsOf(daily_results, p.id) # {}
        /\ \E b \in polls : b.group_id = p.group_id /\ b.poll_date = today

\* C17: enrolling a user again after they left reactivates the row they had,
\* with its id, and creates no row; the daily results recorded for that row
\* before they left are still recorded for it.
C17_Step ==
    (Calls("upsert_participant") /\ regCall'.held = "inactive") =>
        LET c == regCall'
            g == c.group_id
        IN \A p \in RowsByUserId(participants, g, c.user_id) :
            /\ c.id = p.id
            /\ \E r \in RowOf(participants', p.id) :
                    r.user_id = p.user_id /\ r.active = 1
            /\ RowsByUserId(participants', g, c.user_id) \subseteq RowOf(participants', p.id)
            /\ Cardinality(GroupRows(participants', g))
                    = Cardinality(GroupRows(participants, g))
            /\ ResultsOf(daily_results', p.id) = ResultsOf(daily_results, p.id)

C17_RejoinReactivates == [][C17_Step]_vars

\* A user with results on record left and has enrolled again.
C17_Witness ==
    /\ regCall.op = "upsert_participant"
    /\ regCall.held = "inactive"
    /\ \E r \in RowOf(participants, regCall.id) :
            /\ r.user_id = regCall.user_id /\ r.active = 1
            /\ ResultsOf(daily_results, r.id) # {}


\* C19: a group never has two participant rows with the same known
\* user_id, also while calls of upsert_participant and
\* resolve_pending_by_username for that user overlap at their awaits.
C19_OneRowPerUser ==
    \A r1, r2 \in participants :
        (r1.group_id = r2.group_id /\ r1.user_id # NULL /\ r1.user_id = r2.user_id)
            => r1.id = r2.id

\* Two calls for one user overlapped: the second to write was refused by the
\* index, and the user has a row.
C19_Witness ==
    /\ regCall.ok = "IntegrityError"
    /\ regCall.op = "upsert_participant"
    /\ RowsByUserId(participants, regCall.group_id, regCall.user_id) # {}


\* --------------------------------------------------------------- scheduler
JobsOf(g, kind) == {j \in jobs : j.group_id = g /\ j.kind = kind}

PollFiringsOf(g, d) ==
    {f \in fired : f.kind = "poll" /\ f.group_id = g /\ f.day = d}

\* A group with jobs installed has exactly one poll, one snapshot and one
\* weekly job, the poll job at the time last given to schedule_group_jobs.
OneTriggerEach ==
    \A g \in Groups : (\E j \in jobs : j.group_id = g) =>
        /\ \A kind \in {"poll", "snapshot", "weekly"} :
                Cardinality(JobsOf(g, kind)) = 1
        /\ \A j \in JobsOf(g, "poll") : j.time = supplied[g]

\* C20 as stated: after any sequence of schedule_group_jobs calls the group
\* has exactly one trigger of each kind, the ballot-open one at the time last
\* supplied, and no day gets two ballot-open firings for one group.
C20_NoDayFiresTwice ==
    /\ OneTriggerEach
    /\ \A g \in Groups, d \in Days : Cardinality(PollFiringsOf(g, d)) <= 1

\* C20, amended: after any sequence of schedule_group_jobs calls the group has
\* exactly one trigger of each kind, the ballot-open one at the time last
\* supplied; a day may get a second ballot-open firing, but no day gets a
\* second ballot slot or a second published ballot for one group.
C20_OneTriggerOneBallot ==
    /\ OneTriggerEach
    /\ \A g \in Groups, d \in Days :
        /\ Cardinality({r \in polls : r.group_id = g /\ r.poll_date = d}) <= 1
        /\ Cardinality({b \in tgPolls : b.chat_id = g /\ b.day = d}) <= 1

\* The poll time was moved after the day's ballot had been published: the
\* moved job has fired too, and the day still has one ballot.
C20_Witness ==
    \E g \in Groups :
        /\ Cardinality(PollFiringsOf(g, today)) = 2
        /\ Cardinality({b \in tgPolls : b.chat_id = g /\ b.day = today}) = 1
        /\ \E j \in JobsOf(g, "poll") : j.time = supplied[g] /\ j.time # DefaultPollTime


\* The step calls remove_group_jobs for group g, which had jobs scheduled.
Unschedules(g) == supplied[g] # NULL /\ supplied'[g] = NULL

OtherJobs(store, g) == {j \in store : j.group_id # g}

PollTimeOf(rows, g) == {r.poll_time : r \in get_settings(rows, g)}

\* C21: remove_group_jobs for a group removes the group's three jobs and
\* nothing else: the jobs of other groups, the stored participants, polls,
\* votes and results, and the group's poll time are as before; and no job of
\* the group runs until schedule_group_jobs is called for it again.
C21_Step ==
    /\ \A g \in Groups : Unschedules(g) =>
        /\ \A kind \in {"poll", "snapshot", "weekly"} :
                JobsOf(g, kind) # {} /\ {j \in jobs' : j.group_id = g /\ j.kind = kind} = {}
        /\ OtherJobs(jobs', g) = OtherJobs(jobs, g)
        /\ UNCHANGED <<participants, polls, tgPolls, votes, daily_results,
                       weekly_results>>
        /\ PollTimeOf(settings', g) = PollTimeOf(settings, g)
        /\ \A h \in Groups \ {g} : get_settings(settings', h) = get_settings(settings, h)
    /\ \A f \in fired' \ fired : supplied[f.group_id] # NULL

C21_UnscheduleFrame == [][C21_Step]_vars

\* A group ran its poll job on the first day and was stopped; on the second
\* day the other group's poll job has run and the stopped group's has not.
C21_Witness ==
    \E g \in Groups, h \in Groups :
        /\ g # h /\ today = 1 /\ now > DefaultPollTime + 1
        /\ supplied[g] = NULL
        /\ PollFiringsOf(g, 0) # {} /\ PollFiringsOf(g, 1) = {}
        /\ PollFiringsOf(h, 1) # {}


\* The step is a process start: main has restored the jobs.
Restores == boot' # boot

ChallengeActive(rows, g) == \E r \in rows : r.group_id = g /\ r.challenge_active = 1

\* C22: after a restore the groups with jobs installed are exactly the groups
\* whose settings row has challenge_active = 1, each with its poll job at the
\* stored poll_time.
C22_RestoreStep ==
    Restores => \A g \in Groups :
        /\ (\E j \in jobs' : j.group_id = g) <=> ChallengeActive(settings', g)
        /\ \A j \in jobs' : (j.group_id = g /\ j.kind = "poll") =>
                j.time \in PollTimeOf(settings', g)

C22_RestoreMatchesSettings == [][C22_RestoreStep]_vars


\* C23: whenever no admin command is in flight, every poll job installed
\* is at the poll_time that settings holds for its group.
C23_QuiescentJobsMatchSettings ==
    (\A t \in AdmTasks : admJob[t].pc = "idle") =>
        \A j \in jobs : j.kind = "poll" => j.time \in PollTimeOf(settings, j.group_id)

\* The step is the scheduler coming to a job.
Delivers == delivery' # delivery

StoreAndChat ==
    <<polls, tgPolls, votes, participants, daily_results, weekly_results, summaries>>

\* What a run that executes does at once: post_daily_poll reserves the slot
\* of the day it reads, snapshot_daily_results writes the results of the day
\* it reads, post_weekly_summary is entered.
Executes(d) ==
    /\ fired' # fired
    /\ CASE d.kind = "poll" ->
                \/ polls' # polls
                \/ \E p \in polls : p.group_id = d.group_id /\ p.poll_date = d.day
         [] d.kind = "snapshot" ->
                daily_results' = SnapshotResult(daily_results, participants,
                                                polls, votes, d.group_id, d.day)
         [] d.kind = "weekly" ->
                \E f \in WeeklyFirings :
                    /\ weeklyJob[f].pc = "ready" /\ weeklyJob'[f].pc # "ready"
                    /\ weeklyJob'[f].group_id = d.group_id

\* C24: a poll or weekly run the scheduler comes to more than 300 seconds
\* late, or a snapshot run more than 120 seconds late, is dropped: nothing
\* is written and nothing is sent.  A run it comes to within that time
\* executes.
C24_Step ==
    Delivers =>
        LET d == delivery'
            grace == IF d.kind \in {"poll", "weekly"} THEN 300 ELSE 120
        IN IF d.late > grace
           THEN UNCHANGED StoreAndChat /\ UNCHANGED <<weeklyJob, pollJob, fired>>
           ELSE Executes(d)

C24_GraceWindow == [][C24_Step]_vars

\* The day's poll ran 300 seconds late and the snapshot of the evening, 121
\* seconds late, was dropped: a member is enrolled and has no result.
C24_Witness ==
    /\ delivery.kind = "snapshot" /\ delivery.late = 121
    /\ \E f \in fired : f.kind = "poll"
    /\ \A f \in fired : f.kind # "snapshot"
    /\ polls # {} /\ participants # {} /\ daily_results = {}

\* A time of day in 24-hour notation: an hour of 0 to 23 in one or two
\* digits, a colon, a minute of 0 to 59 in two digits.
Colons(raw) == {i \in 1..Len(raw) : raw[i] = ":"}

IsTime24(raw) ==
    /\ Cardinality(Colons(raw)) = 1
    /\ \A i \in 1..Len(raw) : raw[i] = ":" \/ IsDigit(raw[i])
    /\ LET i == CHOOSE k \in Colons(raw) : TRUE
       IN /\ i - 1 \in {1, 2} /\ Len(raw) - i = 2
          /\ int(SubSeq(raw, 1, i - 1)) <= 23
          /\ int(SubSeq(raw, i + 1, Len(raw))) <= 59

\* C25: /set_time with an argument that is no 24-hour time is rejected: the
\* poll_time of every settings row stays as it was, and so does every job.
C25_Step ==
    (timeArg' # timeArg /\ ~IsTime24(timeArg'.raw)) =>
        /\ jobs' = jobs
        /\ \A r \in settings : r \in settings'
        /\ \A r \in settings' : r \in settings \/ r = SettingsRow(timeArg'.group_id)

C25_BadTimeRejected == [][C25_Step]_vars

\* The challenge runs with the poll moved to the later slot, and the last
\* /set_time, with 26:00, left it there.
C25_Witness ==
    /\ timeArg.raw = <<"2", "6", ":", "0", "0">>
    /\ \E r \in settings : r.poll_time = DefaultPollTime + 1 /\ r.challenge_active = 1
    /\ \E j \in jobs : j.kind = "poll" /\ j.time = DefaultPollTime + 1

\* The poll_answer update of this step carries a Telegram poll id that no
\* row of polls has.
AnswersUnknownPoll ==
    /\ answerEvent' # answerEvent
    /\ \A p \in polls : p.tg_poll_id # answerEvent'.poll_id

\* C26: a poll answer for a poll id that no polls row carries changes
\* nothing: no vote is written, no participant is resolved, nothing is raised.
C26_Step ==
    AnswersUnknownPoll =>
        /\ votes' = votes /\ participants' = participants /\ polls' = polls
        /\ daily_results' = daily_results /\ lastAnswer' = lastAnswer
        /\ ~answerEvent'.raised

C26_UnknownPollIgnored == [][C26_Step]_vars

\* A poll is published, a username is enrolled and waits for its account,
\* and the last answer, from that account, was for another poll id: no vote
\* is stored and the row still waits.
C26_Witness ==
    /\ answerEvent.user_id # NULL
    /\ \E p \in polls : p.tg_poll_id # NULL
    /\ \A p \in polls : p.tg_poll_id # answerEvent.poll_id
    /\ \E r \in participants : r.pending = 1 /\ r.username = Lower(Username(answerEvent.user_id))
    /\ votes = {}

\* The rows of group h in every table (a vote belongs to the group of its
\* poll).
RowsOf(prows, parts, drows, wrows, vrows, h) ==
    [polls |-> {r \in prows : r.group_id = h},
     participants |-> {r \in parts : r.group_id = h},
     daily_results |-> {r \in drows : r.group_id = h},
     weekly_results |-> {r \in wrows : r.group_id = h},
     votes |-> {v \in vrows : \E r \in prows : r.id = v.poll_id /\ r.group_id = h}]

\* The step is a run of poll_{g} whose publish fails: the slot is reserved
\* and no poll is sent.
PollFails(g) ==
    /\ Delivers /\ delivery'.kind = "poll" /\ delivery'.group_id = g
    /\ polls' # polls /\ tgPolls' = tgPolls

\* The step is the send of g's weekly summary failing.
WeeklyRaises(g) ==
    \E f \in WeeklyFirings :
        /\ weeklyJob[f].group_id = g
        /\ weeklyJob[f].pc = "sending" /\ weeklyJob'[f].pc = "raised"

\* Group g had a run fail in the current slot.
FailedInSlot(g) ==
    \/ /\ \E f \in fired : f.kind = "poll" /\ f.group_id = g /\ f.day = today /\ f.at = now
       /\ \E r \in polls : r.group_id = g /\ r.poll_date = today /\ r.tg_poll_id = NULL
    \/ /\ \E f \in fired : f.kind = "weekly" /\ f.group_id = g /\ f.day = today /\ f.at = now
       /\ \E f \in WeeklyFirings : weeklyJob[f].group_id = g /\ weeklyJob[f].pc = "raised"

\* The run of this step does its work in full: the poll's slot is reserved,
\* the week's summary passes its check.
RunsInFull(d) ==
    CASE d.kind = "poll" ->
            (~PollSlotTaken(polls, d.group_id, today)) =>
                PollSlotTaken(polls', d.group_id, today)
      [] d.kind = "weekly" ->
            (\A r \in weekly_results : r.group_id # d.group_id) =>
                \E f \in WeeklyFirings :
                    /\ weeklyJob[f].pc = "ready" /\ weeklyJob'[f].pc = "checked"
                    /\ weeklyJob'[f].group_id = d.group_id
      [] OTHER -> fired' # fired

\* C27: a publish or send that fails in a run of one group leaves the jobs
\* and the rows of every other group as they were and the group's own jobs
\* installed, and the runs of the other groups in the same slot are carried
\* out.
C27_Step ==
    /\ \A g \in Groups : (PollFails(g) \/ WeeklyRaises(g)) =>
            /\ \A kind \in {"poll", "snapshot", "weekly"} :
                    \E j \in jobs' : j.group_id = g /\ j.kind = kind
            /\ \A h \in Groups \ {g} :
                    /\ {j \in jobs' : j.group_id = h} = {j \in jobs : j.group_id = h}
                    /\ RowsOf(polls', participants', daily_results', weekly_results',
                              votes', h)
                         = RowsOf(polls, participants, daily_results, weekly_results,
                                  votes, h)
    /\ \A g \in Groups, j \in jobs :
            (FailedInSlot(g) /\ j.group_id # g /\ Due(j)) =>
                /\ ENABLED (FailNext /\ Delivers /\ delivery'.group_id = j.group_id
                                     /\ delivery'.kind = j.kind)
                /\ ~ENABLED WeekendTick
    /\ (Delivers /\ \E g \in Groups \ {delivery'.group_id} : FailedInSlot(g)) =>
            RunsInFull(delivery')

C27_FailureStaysInGroup == [][C27_Step]_vars

\* Monday 09:00: the send of one group's summary has failed and the other
\* group's summary is posted; on Sunday the first group's poll was not
\* published and the other group's was.
C27_Witness ==
    \E g \in Groups, h \in Groups :
        /\ g # h /\ today = Sunday + 1 /\ now = WeeklySlot
        /\ \E f \in WeeklyFirings : weeklyJob[f].group_id = g /\ weeklyJob[f].pc = "raised"
        /\ \E m \in summaries : m.chat_id = h /\ ~m.preview
        /\ \E r \in polls : r.group_id = g /\ r.poll_date = Sunday /\ r.tg_poll_id = NULL
        /\ \E r \in polls : r.group_id = h /\ r.poll_date = Sunday /\ r.tg_poll_id # NULL

\* Execution f has read the leaderboard.
HasRead(f) == weeklyJob[f].pc \in {"empty", "sending", "done", "raised"}

\* The days of ws..we on which participant pid has a daily result `status`.
DaysWith(pid, status, ws, we) ==
    {d \in ws..we : \E r \in daily_results :
        r.participant_id = pid /\ r.result_date = d /\ r.status = status}

\* The names of the model in alphabetical order, case apart.
Alphabetical == <<"adam", "lea", "mia", "zoe">>

NamePlace(name) == CHOOSE i \in 1..Len(Alphabetical) : Alphabetical[i] = Lower(name)

\* C28: the leaderboard holds the active participants of the group, each
\* once, with the numbers of its yes, no and missed results dated within the
\* range, by yes_count downwards and then by name upwards, case apart.  With
\* A and B at 3 yes, C at 2 and A's name after B's it reads B, A, C.
C28_Leaderboard ==
    \A f \in WeeklyFirings : HasRead(f) =>
        LET j == weeklyJob[f]
            rows == j.rows
            active == {q \in participants : q.group_id = j.group_id /\ q.active = 1}
            Yes(q) == Cardinality(DaysWith(q.id, "yes", j.week_start, j.week_end))
        IN /\ Len(rows) = Cardinality(active)
           /\ {rows[i].id : i \in 1..Len(rows)} = {q.id : q \in active}
           /\ \A i \in 1..Len(rows) :
                /\ rows[i].yes_count =
                     Cardinality(DaysWith(rows[i].id, "yes", j.week_start, j.week_end))
                /\ rows[i].no_count =
                     Cardinality(DaysWith(rows[i].id, "no", j.week_start, j.week_end))
                /\ rows[i].missed_count =
                     Cardinality(DaysWith(rows[i].id, "missed", j.week_start, j.week_end))
           /\ \A i \in 1..Len(rows), k \in 1..Len(rows) : i < k =>
                \/ rows[i].yes_count > rows[k].yes_count
                \/ /\ rows[i].yes_count = rows[k].yes_count
                   /\ NamePlace(rows[i].display_name) <= NamePlace(rows[k].display_name)
           /\ \A a \in active, b \in active, c \in active :
                (/\ active = {a, b, c}
                 /\ Yes(a) = 3 /\ Yes(b) = 3 /\ Yes(c) = 2
                 /\ NamePlace(a.display_name) > NamePlace(b.display_name))
                    => [i \in 1..Len(rows) |-> rows[i].id] = <<b.id, a.id, c.id>>

\* Zoe and adam answered yes on all three days and Mia on two; all three
\* answered yes on the Sunday before the week too.  The preview lists adam,
\* Zoe, Mia.
C28_Witness ==
    /\ HasRead(1)
    /\ Len(weeklyJob[1].rows) = 3
    /\ [i \in 1..3 |-> weeklyJob[1].rows[i].display_name] = <<"adam", "Zoe", "Mia">>
    /\ [i \in 1..3 |-> weeklyJob[1].rows[i].yes_count] = <<3, 3, 2>>
    /\ \E r \in daily_results : r.result_date < weeklyJob[1].week_start /\ r.status = "yes"

\* The step is one of a preview: its start, its read or its send.
PreviewStep ==
    \E f \in WeeklyFirings : weeklyJob'[f] # weeklyJob[f] /\ weeklyJob'[f].preview

\* The step is a scheduled run stopping at its idempotency check.
Suppressed(f) ==
    /\ weeklyJob[f].pc = "ready" /\ weeklyJob'[f].pc = "skipped"
    /\ ~weeklyJob'[f].preview

\* C29: no step of a preview, and no read of the leaderboard, changes a row
\* of daily_results or of weekly_results (nor of participants, polls, votes),
\* and a scheduled run
\* stops at its check only where a scheduled run has written rows: previews,
\* however many, suppress none.
C29_Step ==
    /\ PreviewStep =>
            UNCHANGED <<daily_results, weekly_results, participants, polls, votes>>
    /\ \A f \in WeeklyFirings :
            (weeklyJob[f].pc = "checked" /\ weeklyJob'[f].pc # "checked") =>
                UNCHANGED <<daily_results, weekly_results, participants, polls, votes>>
    /\ \A f \in WeeklyFirings : Suppressed(f) =>
            \E f0 \in WeeklyFirings \ {f} :
                /\ ~weeklyJob[f0].preview /\ weeklyJob[f0].i > 0
                /\ weeklyJob[f0].group_id = weeklyJob'[f].group_id
                /\ weeklyJob[f0].week_start = weeklyJob'[f].week_start

C29_PreviewWritesNothing == [][C29_Step]_vars

\* A preview was sent, and the scheduled run after it has stored the week's
\* rows and sent its summary.
C29_Witness ==
    /\ weeklyJob[1].preview /\ weeklyJob[1].pc = "done"
    /\ ~weeklyJob[2].preview /\ weeklyJob[2].pc = "done"
    /\ weekly_results # {}
    /\ \E m \in summaries : m.preview
    /\ \E m \in summaries : ~m.preview

\* A scheduled run that has been through its whole loop.
LoopDone(f) ==
    /\ ~weeklyJob[f].preview
    /\ weeklyJob[f].pc \in {"sending", "done", "raised"}

\* C30: the scheduled run that finalizes a (group, week) stores one
\* weekly_results row for each row of the leaderboard it read and no other;
\* the row of the k-th entry has rank k, so the ranks are 1..n, each once.
C30_OneRowPerEntry ==
    \A f \in WeeklyFirings : LoopDone(f) =>
        LET j == weeklyJob[f]
            n == Len(j.rows)
            stored == {r \in weekly_results :
                        r.group_id = j.group_id /\ r.week_start = j.week_start}
        IN /\ Cardinality(stored) = n
           /\ {r.rank_pos : r \in stored} = 1..n
           /\ \A k \in 1..n :
                LET mine == {r \in stored : r.participant_id = j.rows[k].id}
                IN /\ Cardinality(mine) = 1
                   /\ \A r \in mine :
                        /\ r.rank_pos = k
                        /\ r.total_yes = j.rows[k].yes_count
                        /\ r.total_no = j.rows[k].no_count
                        /\ r.total_missed = j.rows[k].missed_count

\* A run has stored the rows of two participants and sent its summary,
\* while a member left the chat after the leaderboard was read.
C30_Witness ==
    \E f \in WeeklyFirings :
        /\ LoopDone(f) /\ weeklyJob[f].pc = "done"
        /\ Len(weeklyJob[f].rows) = 2
        /\ Cardinality(weekly_results) = 2
        /\ \E q \in participants : q.active = 0


\* ---------------------------------------------------------------- C31
Abs(x) == IF x < 0 THEN -x ELSE x

\* A stored rate is held as a whole number of hundredths; it is the value
\* nearest to `exact` when its distance from it is at most one half.
Nearest(stored, num, den) == 2 * Abs(stored * den - num) <= den

\* C31 as stated: the completion rate stored in each Weekly Result row is
\* the yes-count divided by the period length (7 days), rounded to two
\* decimal places, that is, a fraction between 0 and 1.
C31_RateIsFraction ==
    \A r \in weekly_results :
        Nearest(r.completion_rate, r.total_yes * Hundredths, WeekLength)

\* C31, amended: the completion rate stored in each Weekly Result row is the
\* yes-count divided by the period length (7 days) and multiplied by 100,
\* a percentage, rounded to two decimal places.
C31_RateIsPercentage ==
    \A r \in weekly_results :
        Nearest(r.completion_rate, r.total_yes * Percent * Hundredths,
                WeekLength)

\* A finalized week holds a row of a participant who read on some day.
C31_Witness ==
    \E r \in weekly_results : r.total_yes > 0 /\ r.completion_rate > 0


\* ---------------------------------------------------------------- C32
\* The step runs post_daily_poll for the group of the delivery.
RunsPoll ==
    /\ Delivers
    /\ delivery'.kind = "poll"
    /\ fired' # fired

\* C32: post_daily_poll is never run for a group that has no settings row:
\* a poll job is installed only by /challenge_start, by /set_time on an
\* active challenge or by the restore, each of which has read the group's
\* settings row, and no statement deletes one.
C32_Step ==
    /\ RunsPoll => get_settings(settings, delivery'.group_id) # {}
    /\ \A j \in jobs' : get_settings(settings', j.group_id) # {}

C32_PollNeedsSettings == [][C32_Step]_vars

\* post_daily_poll ran from a job that the restore installed, at a poll time
\* that /set_time had moved.
C32_Witness ==
    /\ delivery.kind = "poll" /\ delivery.late = 0
    /\ boot = 1
    /\ \E f \in fired : /\ f.kind = "poll" /\ f.group_id = delivery.group_id
                        /\ At(f.day, f.at) = delivery.at
                        /\ f.at # DefaultPollTime


\* ---------------------------------------------------------------- C33
\* The rows of group g that carry alias a, in any case, and no identity.
PendingRows(rows, g, a) ==
    {r \in RowsByUsername(rows, g, a) : r.user_id = NULL}

\* C33: in every reachable state a group has, per case-insensitive alias,
\* at most one participant row without an identity, also when two calls of
\* add_pending_participant for the same alias interleave between their
\* SELECT and their INSERT.
C33_OnePendingPerAlias ==
    \A g \in DayGroups, u \in Voters :
        Cardinality(PendingRows(participants, g, Username(u))) <= 1


\* ---------------------------------------------------------------- C34
\* The step is a call of resolve_pending_by_username from the middleware.
ResolveCall ==
    /\ regCall'.seq # regCall.seq
    /\ regCall'.op = "resolve_pending_by_username"

\* C34: resolve_pending_by_username, called on every inbound message, never
\* raises: it binds exactly one pending row to the sender and returns true,
\* or returns false and leaves every row as it was; a second call with the
\* same arguments returns false and changes nothing.  This holds also when
\* the sender already owns a row of the group and another, pending row
\* carries the sender's username.
C34_Step ==
    ResolveCall =>
        LET c == regCall'
            again == resolve_pending_by_username(participants', c.group_id,
                        c.username, c.user_id, FullName(c.user_id))
        IN /\ c.ok \in {"true", "false"}
           /\ c.ok = "false" => participants' = participants
           /\ c.ok = "true" =>
                \E r \in participants :
                    /\ r.user_id = NULL /\ r.pending = 1
                    /\ participants' = UpdateRow(participants, r.id,
                            [r EXCEPT !.user_id = c.user_id,
                                      !.display_name = FullName(c.user_id),
                                      !.pending = 0])
           /\ again.ret = "false"
           /\ again.participants = participants'

C34_ResolveNeverRaises == [][C34_Step]_vars


\* ---------------------------------------------------------------- C35
\* C35: a group has jobs in the scheduler only while the challenge flag of
\* its settings row is set; once the bot has lost access to a group
\* (deactivate_group) no poll, snapshot or weekly run executes for it.
C35_Step ==
    /\ \A j \in jobs' : ChallengeActive(settings', j.group_id)
    /\ (Delivers /\ fired' # fired) =>
            ChallengeActive(settings, delivery'.group_id)

C35_JobsOnlyWhileActive == [][C35_Step]_vars


\* ---------------------------------------------------------------- C36
\* The calendar day of the run time the scheduler is delivering.
ScheduledDay(d) == d.at \div SlotsPerDay

\* C36: a poll or snapshot run that executes within its grace time acts on
\* the calendar day of its run time: post_daily_poll reserves the slot of
\* that day and snapshot_daily_results writes the results of that day, not
\* of a later one, also when the late run starts after midnight.
C36_Step ==
    (Delivers /\ fired' # fired) =>
        LET d == delivery'
        IN CASE d.kind = "poll" ->
                    /\ \A p \in polls' \ polls : p.poll_date = ScheduledDay(d)
                    /\ \E p \in polls' : /\ p.group_id = d.group_id
                                         /\ p.poll_date = ScheduledDay(d)
             [] d.kind = "snapshot" ->
                    daily_results' = SnapshotResult(daily_results, participants,
                                        polls, votes, d.group_id, ScheduledDay(d))
             [] OTHER -> TRUE

C36_RunActsOnScheduledDay == [][C36_Step]_vars


\* ---------------------------------------------------------------- C37
\* A scheduled run of post_weekly_summary for group g is between two awaits.
FinalizingNow(g) ==
    \E f \in WeeklyFirings :
        /\ WeeklyInFlight(weeklyJob[f])
        /\ weeklyJob[f].group_id = g /\ ~weeklyJob[f].preview

\* The scheduled runs for (g, week_start) that have read their leaderboard.
Finalizations(g, week_start) ==
    {f \in WeeklyFirings :
        /\ weeklyJob[f].group_id = g /\ weeklyJob[f].week_start = week_start
        /\ ~weeklyJob[f].preview /\ weeklyJob[f].rows # <<>>}

\* C37: once no run is at work on it, a week that has any Weekly Result row
\* has a row for every participant of the leaderboard its finalization
\* computed, and its summary was published: a crash or a failed send in the
\* middle of post_weekly_summary leaves no week that later runs skip as
\* finalized although it was stored in part or never announced.
C37_FinalizedWeekIsComplete ==
    \A g \in DayGroups, r \in weekly_results :
        (r.group_id = g /\ ~FinalizingNow(g)) =>
            /\ ScheduledSummaries(g, r.week_start) # {}
            /\ \A f \in Finalizations(g, r.week_start) :
                    \A i \in 1..Len(weeklyJob[f].rows) :
                        WeeklyKeyRows(weekly_results, g, weeklyJob[f].rows[i].id,
                                      r.week_start) # {}


\* ---------------------------------------------------------------- C38
\* The step handles a poll_answer update.
AnswerHandled == answerEvent'.seq # answerEvent.seq

\* The polls Telegram published for this bot's send_poll under handle h.
OwnBallots(h) == {t \in tgPolls : t.tg_poll_id = h}

\* C38: every poll_answer update whose poll id was returned by this bot's
\* own send_poll leaves a votes row for (poll, user), however on_poll_answer
\* interleaves with post_daily_poll, also when the update is handled after
\* send_poll has returned and before update_poll_telegram_ids has run.
C38_Step ==
    AnswerHandled =>
        \A t \in OwnBallots(answerEvent'.poll_id) :
            \E p \in polls : \E v \in votes' :
                /\ p.group_id = t.chat_id /\ p.poll_date = t.day
                /\ v.poll_id = p.id /\ v.user_id = answerEvent'.user_id

C38_OwnBallotAnswerStored == [][C38_Step]_vars


\* ---------------------------------------------------------------- C39
\* The option the handled update chose; <<>> for a retraction or when the
\* update reached no poll.
ChosenNow ==
    LET mine == {a \in lastAnswer' : /\ a.tg_poll_id = answerEvent'.poll_id
                                     /\ a.user_id = answerEvent'.user_id}
    IN IF mine = {} THEN <<>> ELSE (CHOOSE a \in mine : TRUE).option_ids

\* Row r is an active participant of group g enrolled by username alone,
\* and the username is that of user u, who has no row of his own there.
EnrolledByAliasOnly(r, g, u) ==
    /\ r.group_id = g /\ r.user_id = NULL /\ r.active = 1
    /\ r.username # "" /\ Lower(r.username) = Lower(Username(u))
    /\ RowsByUserId(participants, g, u) = {}

\* C39: when a participant enrolled by username alone answers the day's
\* published poll, in an update that carries that username, on_poll_answer
\* stores the vote and binds the user to the pending row, and a snapshot
\* that follows records yes or no for that row, not missed.
C39_Step ==
    (AnswerHandled /\ ChosenNow # <<>>) =>
        LET u == answerEvent'.user_id
            chosen == ChosenNow[1]
        IN \A p \in polls : \A r \in participants :
            ( /\ p.tg_poll_id = answerEvent'.poll_id /\ p.poll_date = today
              /\ EnrolledByAliasOnly(r, p.group_id, u) ) =>
                /\ \E v \in votes' : /\ v.poll_id = p.id /\ v.user_id = u
                                     /\ v.option_idx = chosen
                /\ \E b \in participants' : /\ b.id = r.id /\ b.user_id = u
                                            /\ b.pending = 0
                /\ \E d \in SnapshotResult(daily_results', participants',
                                            polls', votes', p.group_id, today) :
                        /\ d.participant_id = r.id /\ d.result_date = today
                        /\ d.status = IF chosen = 0 THEN "yes" ELSE "no"

=============================================================================
